---- MODULE Spec2Model ----
(***************************************************************************)
(* A model of the text CRDT of this repository: the Replica of             *)
(* src/src/replica.rs, its readiness predicates, clocks and integration    *)
(* paths, over the run tree, the version maps and the backlog.             *)
(*                                                                         *)
(* replica.rs, anchor.rs and gtree.rs are translated from the source.  The *)
(* run tree (RunTree, EditRun), the version maps, the operation values     *)
(* (Insertion, Deletion) and the backlog live in files that are not part   *)
(* of the sources at hand; they are modelled from sections 3, 4.2, 4.3 and *)
(* 4.4 of the specification, and each such definition says so.             *)
(*                                                                         *)
(* The run tree is kept as its in-order sequence of leaves (the Gtree's    *)
(* balancing does not change that sequence).                               *)
(***************************************************************************)
EXTENDS Integers, Sequences, FiniteSets, TLC

\* ------------------------------------------------------------------ bounds
\* The replicas that edit have the ids 1..MaxWriters (0 is the reserved id of
\* the zero anchor); one more replica, the Observer, only receives.
MaxWriters == 2
\* Total number of operations (Insertion, Deletion) generated in a run.
MaxOps == 3
\* Longest text passed to inserted(); 0 is the no-op.
MaxInsLen == 1
\* Longest initial buffer passed to Replica::new.
MaxInitLen == 2
\* The same two bounds for the system that has the Observer.
ObservedOps == 2
ObservedInitLen == 3
\* The same bound on the operations for the system in which anchors are
\* created, and the number of anchors created in a run.
AnchorOps == 2
MaxAnchors == 1

Writers == 1..MaxWriters
Observer == MaxWriters + 1
ReplicaIds == 1..Observer
IdDomain == 0..Observer

VARIABLES
    replicas,   \* replica id -> the Replica with that id, or Absent
    log,        \* every operation returned by inserted()/deleted(), oldest first
    history,    \* for each entry of the log, what the call did at its replica:
                \* the characters it made invisible (erased) and the ones
                \* that were invisible there already (gone)
    anchors,    \* the anchors returned by create_anchor(), each with the call
                \* that made it and the character it was attached to
    gt,         \* a Gtree driven on its own through insert() and
                \* delete_range(), or None where replicas are driven
    called      \* the last call made on gt, with what it returned, and
                \* how many calls were made

vars == <<replicas, log, history, anchors, gt, called>>

Absent == [id |-> 0]

Max(a, b) == IF a >= b THEN a ELSE b

\* seq with x placed after its first k elements
InsertAfter(seq, k, x) ==
    SubSeq(seq, 1, k) \o <<x>> \o SubSeq(seq, k + 1, Len(seq))

\* seq with its k-th element replaced by the elements of xs
ReplaceAt(seq, k, xs) ==
    SubSeq(seq, 1, k - 1) \o xs \o SubSeq(seq, k + 1, Len(seq))

\* ------------------------------------------------------------- clocks
\* LamportClock::highest, RunClock::last: saturating_sub(1)
Highest(clock) == IF clock = 0 THEN 0 ELSE clock - 1

\* LamportClock::merge that leaves the clock alone
LamportMergeKeep(clock, remote_ts) == clock

\* LamportClock::merge that always takes the remote timestamp
LamportMergeRemote(clock, remote_ts) == remote_ts + 1

\* LamportClock::merge that always steps past the higher of the two
LamportMergeMaxPlusOne(clock, remote_ts) == Max(clock, remote_ts) + 1

\* LamportClock::merge that moves only for a remote timestamp above the clock
LamportMergeAbove(clock, remote_ts) ==
    IF remote_ts > clock THEN remote_ts + 1 ELSE clock

\* LamportClock::merge
LamportMerge(clock, remote_ts) ==
    IF remote_ts >= clock THEN remote_ts + 1 ELSE clock

\* ------------------------------------------------------------- anchors
\* InnerAnchor::zero and InnerAnchor::new
ZeroAnchor == [replica_id |-> 0, run_ts |-> 0, offset |-> 0]

InnerAnchor(replica_id, offset, run_ts) ==
    [replica_id |-> replica_id, run_ts |-> run_ts, offset |-> offset]

IsZero(anchor) == anchor.replica_id = 0

\* enum AnchorBias
AnchorBias == {"Left", "Right"}

\* Anchor::new that drops the bias
AnchorLeft(inner, bias) == [inner |-> inner, bias |-> "Left"]

\* Anchor::new
Anchor(inner, bias) == [inner |-> inner, bias |-> bias]

\* Anchor::start_of_document
StartOfDocument == Anchor(ZeroAnchor, "Left")

\* Anchor::end_of_document built with the bias of the start
EndOfDocumentLeft == Anchor(ZeroAnchor, "Left")

\* Anchor::end_of_document
EndOfDocument == Anchor(ZeroAnchor, "Right")

\* Anchor::is_start_of_document that does not look at the bias
IsStartOfDocumentAnyBias(anchor) == IsZero(anchor.inner)

\* Anchor::is_start_of_document
IsStartOfDocument(anchor) == IsZero(anchor.inner) /\ anchor.bias = "Left"

\* Anchor::is_end_of_document that knows no end-of-document anchor
IsEndOfDocumentNever(anchor) == FALSE

\* Anchor::is_end_of_document
IsEndOfDocument(anchor) == IsZero(anchor.inner) /\ anchor.bias = "Right"

\* ------------------------------------------------------------- version maps
\* VersionMap::new / DeletionMap::new: one entry for this replica; every
\* other id reads as 0.
NewMap(id, value) == [i \in IdDomain |-> IF i = id THEN value ELSE 0]

\* VersionMap::fork: the entries are kept, the new id starts at the value given
ForkMap(map, new_id, value) == [map EXCEPT ![new_id] = value]

\* the partial order on version maps: A >= B iff A[id] >= B[id] for every id
MapGeq(a, b) == \A i \in IdDomain : a[i] >= b[i]

\* ------------------------------------------------------------- edit runs
\* EditRun::new_visible
NewVisibleRun(rid, lo, hi, run_ts, lamport_ts) ==
    [rid |-> rid, lo |-> lo, hi |-> hi, run_ts |-> run_ts,
     lamport_ts |-> lamport_ts, visible |-> TRUE]

\* the Summary of an EditRun: its visible length
RunLen(run) == IF run.visible THEN run.hi - run.lo ELSE 0

RECURSIVE SumLen(_, _)
\* the sum of the summaries of the first k leaves
SumLen(tree, k) == IF k = 0 THEN 0 ELSE SumLen(tree, k - 1) + RunLen(tree[k])

\* RunTree::len: the root summary
TreeLen(tree) == SumLen(tree, Len(tree))

\* Gtree::child_at_offset followed down to the leaves: the first leaf whose
\* end (in summary offsets) is >= at_offset
ChildAtOffset(tree, at_offset) ==
    CHOOSE k \in 1..Len(tree) :
        /\ SumLen(tree, k) >= at_offset
        /\ \A j \in 1..(k - 1) : SumLen(tree, j) < at_offset

\* the two halves of a run split before character `at`
SplitRun(run, at) == << [run EXCEPT !.hi = at], [run EXCEPT !.lo = at] >>

\* ------------------------------------------------------------- operations
\* Insertion::new; text is (inserted_by, [start, end))
Insertion(anchor, inserted_by, start, end, lamport_ts, run_ts) ==
    [kind |-> "insertion", anchor |-> anchor, inserted_by |-> inserted_by,
     start |-> start, end |-> end, lamport_ts |-> lamport_ts, run_ts |-> run_ts]

\* Insertion::no_op: the explicit no-op, an empty text
InsertionNoOp == Insertion(ZeroAnchor, 0, 0, 0, 0, 0)

InsertionIsNoOp(insertion) == insertion.end = insertion.start

InsertionLen(insertion) == insertion.end - insertion.start

\* Deletion::new; start and end are the anchors of the first and of the last
\* deleted character
Deletion(start, end, version_map, deleted_by, deletion_ts) ==
    [kind |-> "deletion", start |-> start, end |-> end,
     version_map |-> version_map, deleted_by |-> deleted_by,
     deletion_ts |-> deletion_ts]

\* Deletion::no_op: the start == end sentinel
DeletionNoOp == Deletion(ZeroAnchor, ZeroAnchor, NewMap(0, 0), 0, 0)

DeletionIsNoOp(deletion) == deletion.start = deletion.end

\* ------------------------------------------------------------- run tree: local
\* A run can take the new text at its end when it is visible, belongs to the
\* inserting replica, ends where the text starts, and is still the run the
\* replica is writing: its timestamps are the ones Replica::inserted puts in
\* the Insertion (lamport_clock.highest(), run_clock.last()).
CanAppend(run, id, lo, run_clock, lamport_clock) ==
    /\ run.visible
    /\ run.rid = id
    /\ run.hi = lo
    /\ run.run_ts = Highest(run_clock)
    /\ run.lamport_ts = Highest(lamport_clock)

\* RunTree::insert: the text (id, [lo, hi)) is inserted at `offset`
RunTreeInsert(tree, offset, id, lo, hi, run_clock, lamport_clock) ==
    LET k == ChildAtOffset(tree, offset)
        leaf == tree[k]
        i == offset - SumLen(tree, k - 1)
        new_run == NewVisibleRun(id, lo, hi, run_clock, lamport_clock)
        anchor == InnerAnchor(leaf.rid, leaf.lo + i, leaf.run_ts)
    IN  IF i = 0
        THEN \* start of the document: a new first run, the zero anchor
             [tree |-> <<new_run>> \o tree, anchor |-> ZeroAnchor,
              run_clock |-> run_clock + 1, lamport_clock |-> lamport_clock + 1]
        ELSE IF i < RunLen(leaf)
        THEN \* inside the leaf: prefix, new run, suffix
             [tree |-> ReplaceAt(tree, k,
                         <<SplitRun(leaf, leaf.lo + i)[1], new_run,
                           SplitRun(leaf, leaf.lo + i)[2]>>),
              anchor |-> anchor,
              run_clock |-> run_clock + 1, lamport_clock |-> lamport_clock + 1]
        ELSE IF CanAppend(leaf, id, lo, run_clock, lamport_clock)
        THEN \* the leaf is extended, no run is created, no clock moves
             [tree |-> ReplaceAt(tree, k, << [leaf EXCEPT !.hi = hi] >>),
              anchor |-> anchor,
              run_clock |-> run_clock, lamport_clock |-> lamport_clock]
        ELSE \* a new leaf right after this one
             [tree |-> InsertAfter(tree, k, new_run), anchor |-> anchor,
              run_clock |-> run_clock + 1, lamport_clock |-> lamport_clock + 1]

\* ------------------------------------------------------------- replica: local
\* Replica::new
ReplicaNew(id, len) ==
    [id |-> id,
     run_tree |-> << NewVisibleRun(id, 0, len, 0, 0) >>,
     run_clock |-> 1,
     lamport_clock |-> 1,
     version_map |-> NewMap(id, len),
     deletion_map |-> NewMap(id, 0),
     backlog |-> [insertions |-> {}, deletions |-> {}]]

\* Replica::fork that starts the Lamport clock anew
ReplicaForkNewClock(self, new_id) ==
    [id |-> new_id,
     run_tree |-> self.run_tree,
     run_clock |-> 0,
     lamport_clock |-> 0,
     version_map |-> ForkMap(self.version_map, new_id, 0),
     deletion_map |-> ForkMap(self.deletion_map, new_id, 0),
     backlog |-> self.backlog]

\* Replica::fork that gives the copy a new, empty backlog
ReplicaForkEmptyBacklog(self, new_id) ==
    [id |-> new_id,
     run_tree |-> self.run_tree,
     run_clock |-> 0,
     lamport_clock |-> self.lamport_clock,
     version_map |-> ForkMap(self.version_map, new_id, 0),
     deletion_map |-> ForkMap(self.deletion_map, new_id, 0),
     backlog |-> [insertions |-> {}, deletions |-> {}]]

\* Replica::fork (new_id is neither 0 nor self.id: the guard of the action)
ReplicaFork(self, new_id) ==
    [id |-> new_id,
     run_tree |-> self.run_tree,
     run_clock |-> 0,
     lamport_clock |-> self.lamport_clock,
     version_map |-> ForkMap(self.version_map, new_id, 0),
     deletion_map |-> ForkMap(self.deletion_map, new_id, 0),
     backlog |-> self.backlog]

\* Replica::len that counts the tombstones too
ReplicaLenAll(self) ==
    LET tree == self.run_tree
        all == [k \in 1..Len(tree) |-> [tree[k] EXCEPT !.visible = TRUE]]
    IN  TreeLen(all)

\* Replica::len
ReplicaLen(self) == TreeLen(self.run_tree)

\* Replica::inserted without the early return for len == 0
ReplicaInsertedNoEarlyReturn(self, at_offset, len) ==
    LET start == self.version_map[self.id]
        end == start + len
        ins == RunTreeInsert(self.run_tree, at_offset, self.id, start, end,
                             self.run_clock, self.lamport_clock)
    IN  [replica |-> [self EXCEPT !.version_map[self.id] = end,
                                  !.run_tree = ins.tree,
                                  !.run_clock = ins.run_clock,
                                  !.lamport_clock = ins.lamport_clock],
         ret |-> Insertion(ins.anchor, self.id, start, end,
                           Highest(ins.lamport_clock), Highest(ins.run_clock))]

\* Replica::inserted that leaves the version map as it was
ReplicaInsertedStaleVersion(self, at_offset, len) ==
    IF len = 0 THEN [replica |-> self, ret |-> InsertionNoOp]
    ELSE
    LET start == self.version_map[self.id]
        end == start + len
        ins == RunTreeInsert(self.run_tree, at_offset, self.id, start, end,
                             self.run_clock, self.lamport_clock)
    IN  [replica |-> [self EXCEPT !.run_tree = ins.tree,
                                  !.run_clock = ins.run_clock,
                                  !.lamport_clock = ins.lamport_clock],
         ret |-> Insertion(ins.anchor, self.id, start, end,
                           Highest(ins.lamport_clock), Highest(ins.run_clock))]

\* Replica::inserted (at_offset <= len: the guard of the action)
ReplicaInserted(self, at_offset, len) ==
    IF len = 0 THEN [replica |-> self, ret |-> InsertionNoOp]
    ELSE
    LET start == self.version_map[self.id]
        end == start + len
        ins == RunTreeInsert(self.run_tree, at_offset, self.id, start, end,
                             self.run_clock, self.lamport_clock)
    IN  [replica |-> [self EXCEPT !.version_map[self.id] = end,
                                  !.run_tree = ins.tree,
                                  !.run_clock = ins.run_clock,
                                  !.lamport_clock = ins.lamport_clock],
         ret |-> Insertion(ins.anchor, self.id, start, end,
                           Highest(ins.lamport_clock), Highest(ins.run_clock))]

\* ------------------------------------------------------------- run tree: delete
\* A visible run with its characters [from, to) turned into a tombstone
\* (lo <= from < to <= hi): the parts outside stay visible runs of their own.
CutRun(run, from, to) ==
    (IF from > run.lo THEN << [run EXCEPT !.hi = from] >> ELSE << >>)
    \o << [run EXCEPT !.lo = from, !.hi = to, !.visible = FALSE] >>
    \o (IF to < run.hi THEN << [run EXCEPT !.lo = to] >> ELSE << >>)

\* What becomes of one leaf, which starts at summary offset `cs`, when the
\* offsets [s, e) are deleted: the part of it inside the range becomes a
\* tombstone, the parts outside stay as they are.
DeletePieces(leaf, cs, s, e) ==
    LET ce == cs + RunLen(leaf)
        a == Max(cs, s)
        b == IF ce <= e THEN ce ELSE e
    IN  IF a >= b THEN << leaf >>
        ELSE CutRun(leaf, leaf.lo + (a - cs), leaf.lo + (b - cs))

RECURSIVE DeleteLeaves(_, _, _, _)
\* the first k leaves of the tree after the deletion of [s, e)
DeleteLeaves(tree, k, s, e) ==
    IF k = 0 THEN << >>
    ELSE DeleteLeaves(tree, k - 1, s, e)
         \o DeletePieces(tree[k], SumLen(tree, k - 1), s, e)

\* the leaves that hold a part of the offsets [s, e)
Touched(tree, s, e) ==
    { k \in 1..Len(tree) :
        Max(SumLen(tree, k - 1), s)
          < (IF SumLen(tree, k) <= e THEN SumLen(tree, k) ELSE e) }

\* RunTree::delete: tombstones the offsets [s, e), s < e <= len.  Returns the
\* anchors of the left edge of the first deleted piece and of the right edge
\* of the last one, and the ids of the replicas whose runs were touched.
RunTreeDelete(tree, s, e) ==
    LET touched == Touched(tree, s, e)
        first == CHOOSE k \in touched : \A j \in touched : k <= j
        final == CHOOSE k \in touched : \A j \in touched : k >= j
    IN  [tree |-> DeleteLeaves(tree, Len(tree), s, e),
         start |-> InnerAnchor(tree[first].rid,
                               tree[first].lo + (s - SumLen(tree, first - 1)),
                               tree[first].run_ts),
         end |-> InnerAnchor(tree[final].rid,
                             tree[final].lo + (e - SumLen(tree, final - 1)),
                             tree[final].run_ts),
         ids |-> { tree[k].rid : k \in touched }]

\* Replica::deleted that leaves the touched replicas out of the version map
ReplicaDeletedOwnVersion(self, start, end) ==
    IF start = end THEN [replica |-> self, ret |-> DeletionNoOp]
    ELSE
    LET del == RunTreeDelete(self.run_tree, start, end)
        deletion_ts == self.deletion_map[self.id] + 1
    IN  [replica |-> [self EXCEPT !.run_tree = del.tree,
                                  !.deletion_map[self.id] = deletion_ts],
         ret |-> Deletion(del.start, del.end,
                          NewMap(self.id, self.version_map[self.id]),
                          self.id, deletion_ts)]

\* Replica::deleted that returns the deletion timestamp it read before the
\* increment
ReplicaDeletedOldTs(self, start, end) ==
    IF start = end THEN [replica |-> self, ret |-> DeletionNoOp]
    ELSE
    LET del == RunTreeDelete(self.run_tree, start, end)
        version_map == [i \in IdDomain |->
                          IF i = self.id \/ i \in del.ids
                          THEN self.version_map[i] ELSE 0]
        deletion_ts == self.deletion_map[self.id] + 1
    IN  [replica |-> [self EXCEPT !.run_tree = del.tree,
                                  !.deletion_map[self.id] = deletion_ts],
         ret |-> Deletion(del.start, del.end, version_map, self.id,
                          self.deletion_map[self.id])]

\* Replica::deleted (start <= end <= len: the guard of the action)
ReplicaDeleted(self, start, end) ==
    IF start = end THEN [replica |-> self, ret |-> DeletionNoOp]
    ELSE
    LET del == RunTreeDelete(self.run_tree, start, end)
        \* VersionMap::new(self.id, 0), the touched ids added by the run tree,
        \* then every entry set to the local version
        version_map == [i \in IdDomain |->
                          IF i = self.id \/ i \in del.ids
                          THEN self.version_map[i] ELSE 0]
        deletion_ts == self.deletion_map[self.id] + 1
    IN  [replica |-> [self EXCEPT !.run_tree = del.tree,
                                  !.deletion_map[self.id] = deletion_ts],
         ret |-> Deletion(del.start, del.end, version_map, self.id,
                          deletion_ts)]

\* ------------------------------------------------------------- run tree: remote
\* The order among runs inserted at the same anchor: higher lamport_ts
\* first, ties broken by the higher id of the inserting replica.
SortsBefore(run, other) ==
    \/ run.lamport_ts > other.lamport_ts
    \/ /\ run.lamport_ts = other.lamport_ts
       /\ run.rid > other.rid

\* the leaf that holds the character to the left of the anchor
LeafOfAnchor(tree, anchor) ==
    CHOOSE k \in 1..Len(tree) :
        /\ tree[k].rid = anchor.replica_id
        /\ tree[k].lo < anchor.offset
        /\ anchor.offset <= tree[k].hi

\* the tree with the leaf of the anchor split at the anchor (unless the
\* anchor is at the end of that leaf)
SplitAtAnchor(tree, anchor) ==
    LET k == LeafOfAnchor(tree, anchor)
    IN  IF anchor.offset < tree[k].hi
        THEN ReplaceAt(tree, k, SplitRun(tree[k], anchor.offset))
        ELSE tree

RECURSIVE SkipTied(_, _, _)
\* the last leaf, from q on, that the new run has to be placed after: the
\* runs that follow the anchor and sort before the new run are skipped
SkipTied(tree, q, run) ==
    IF q < Len(tree) /\ SortsBefore(tree[q + 1], run)
    THEN SkipTied(tree, q + 1, run)
    ELSE q

\* RunTree::merge_insertion: returns the new tree and the offset of the new run
RunTreeMergeInsertion(tree, insertion) ==
    LET run == NewVisibleRun(insertion.inserted_by, insertion.start,
                             insertion.end, insertion.run_ts,
                             insertion.lamport_ts)
        split == IF IsZero(insertion.anchor) THEN tree
                 ELSE SplitAtAnchor(tree, insertion.anchor)
        p == IF IsZero(insertion.anchor) THEN 0
             ELSE LeafOfAnchor(split, insertion.anchor)
        q == SkipTied(split, p, run)
    IN  [tree |-> InsertAfter(split, q, run), offset |-> SumLen(split, q)]

\* the leaf that holds character `char` of replica `rid`
LeafOfChar(tree, rid, char) ==
    CHOOSE k \in 1..Len(tree) :
        /\ tree[k].rid = rid
        /\ tree[k].lo <= char
        /\ char < tree[k].hi

Min(a, b) == IF a <= b THEN a ELSE b

\* ------------------------------------------------------------- run tree: anchors
\* the first leaf that ends after at_offset: the leaf of the character that
\* stands at at_offset in the buffer (at_offset < len)
LeafAfterOffset(tree, at_offset) ==
    CHOOSE k \in 1..Len(tree) :
        /\ SumLen(tree, k) > at_offset
        /\ \A j \in 1..(k - 1) : SumLen(tree, j) <= at_offset

\* RunTree::create_anchor.  The start of the document with the bias Left
\* and its end with the bias Right are the two sentinels.  Otherwise the
\* anchor names a boundary between two characters of the replica that
\* inserted the character it sticks to: a Left anchor sticks to the
\* character before at_offset and names the boundary after it, a Right
\* anchor sticks to the character at at_offset and names the boundary
\* before it.
RunTreeCreateAnchor(tree, at_offset, with_bias) ==
    IF at_offset = 0 /\ with_bias = "Left" THEN StartOfDocument
    ELSE IF at_offset = TreeLen(tree) /\ with_bias = "Right" THEN EndOfDocument
    ELSE LET k == IF with_bias = "Left" THEN ChildAtOffset(tree, at_offset)
                  ELSE LeafAfterOffset(tree, at_offset)
         IN  Anchor(InnerAnchor(tree[k].rid,
                                tree[k].lo + (at_offset - SumLen(tree, k - 1)),
                                tree[k].run_ts),
                    with_bias)

\* the leaves that hold the character the anchor sticks to
LeavesOfAnchor(tree, anchor) ==
    { k \in 1..Len(tree) :
        /\ tree[k].rid = anchor.inner.replica_id
        /\ IF anchor.bias = "Left"
           THEN tree[k].lo < anchor.inner.offset
                /\ anchor.inner.offset <= tree[k].hi
           ELSE tree[k].lo <= anchor.inner.offset
                /\ anchor.inner.offset < tree[k].hi }

\* the lookup of a run the tree does not hold has no answer
NoOffset == 0 - 1

\* RunTree::resolve_anchor: the sentinels resolve to 0 and to len; any
\* other anchor to the visible length on the left of its boundary, which
\* for a tombstone is the visible length on the left of the tombstone
RunTreeResolveAnchor(tree, anchor) ==
    IF IsStartOfDocument(anchor) THEN 0
    ELSE IF IsEndOfDocument(anchor) THEN TreeLen(tree)
    ELSE IF LeavesOfAnchor(tree, anchor) = {} THEN NoOffset
    ELSE LET k == CHOOSE j \in LeavesOfAnchor(tree, anchor) : TRUE
         IN  IF tree[k].visible
             THEN SumLen(tree, k - 1) + (anchor.inner.offset - tree[k].lo)
             ELSE SumLen(tree, k - 1)

\* The characters [from, to) of leaf k that the deletion hides: the ones
\* between its anchors that the deleting replica had when it deleted
\* (the deletion's version map), if the leaf is still visible.
HiddenFrom(tree, k, deletion) ==
    IF k = LeafOfChar(tree, deletion.start.replica_id, deletion.start.offset)
    THEN deletion.start.offset ELSE tree[k].lo

HiddenTo(tree, k, deletion) ==
    Min(deletion.version_map[tree[k].rid],
        IF k = LeafOfChar(tree, deletion.end.replica_id,
                          deletion.end.offset - 1)
        THEN deletion.end.offset ELSE tree[k].hi)

Hides(tree, k, deletion) ==
    /\ tree[k].visible
    /\ k >= LeafOfChar(tree, deletion.start.replica_id, deletion.start.offset)
    /\ k <= LeafOfChar(tree, deletion.end.replica_id, deletion.end.offset - 1)
    /\ HiddenFrom(tree, k, deletion) < HiddenTo(tree, k, deletion)

RECURSIVE MergeLeaves(_, _, _)
\* the first k leaves of the tree after the deletion has been merged
MergeLeaves(tree, k, deletion) ==
    IF k = 0 THEN << >>
    ELSE MergeLeaves(tree, k - 1, deletion)
         \o (IF Hides(tree, k, deletion)
             THEN CutRun(tree[k], HiddenFrom(tree, k, deletion),
                         HiddenTo(tree, k, deletion))
             ELSE << tree[k] >>)

\* ranges, in ascending order, each piece reported on its own
AppendRangeApart(ranges, range) == Append(ranges, range)

\* ranges, in ascending order, with the ones that touch joined
AppendRange(ranges, range) ==
    IF Len(ranges) > 0 /\ ranges[Len(ranges)][2] = range[1]
    THEN [ranges EXCEPT ![Len(ranges)] = << ranges[Len(ranges)][1], range[2] >>]
    ELSE Append(ranges, range)

RECURSIVE MergedRanges(_, _, _)
\* the offsets, in the buffer as it is before the deletion, of what the
\* deletion hides in the first k leaves
MergedRanges(tree, k, deletion) ==
    IF k = 0 THEN << >>
    ELSE IF Hides(tree, k, deletion)
    THEN AppendRange(MergedRanges(tree, k - 1, deletion),
            << SumLen(tree, k - 1)
                 + (HiddenFrom(tree, k, deletion) - tree[k].lo),
               SumLen(tree, k - 1)
                 + (HiddenTo(tree, k, deletion) - tree[k].lo) >>)
    ELSE MergedRanges(tree, k - 1, deletion)

\* RunTree::merge_deletion: returns the new tree and the ranges to delete
RunTreeMergeDeletion(tree, deletion) ==
    [tree |-> MergeLeaves(tree, Len(tree), deletion),
     ranges |-> MergedRanges(tree, Len(tree), deletion)]

\* ------------------------------------------------------------- replica: remote
None == [some |-> FALSE]
Some(value) == [some |-> TRUE, value |-> value]

\* Replica::has_anchor with > for >=
HasAnchorStrict(self, anchor) ==
    self.version_map[anchor.replica_id] > anchor.offset

\* Replica::has_anchor
HasAnchor(self, anchor) ==
    self.version_map[anchor.replica_id] >= anchor.offset

\* Replica::create_anchor (at_offset <= len: the guard of the action)
ReplicaCreateAnchor(self, at_offset, with_bias) ==
    RunTreeCreateAnchor(self.run_tree, at_offset, with_bias)

\* Replica::resolve_anchor that wants more than the anchor of the replica
ReplicaResolveAnchorStrict(self, anchor) ==
    IF HasAnchorStrict(self, anchor.inner)
    THEN Some(RunTreeResolveAnchor(self.run_tree, anchor))
    ELSE None

\* Replica::resolve_anchor
ReplicaResolveAnchor(self, anchor) ==
    IF HasAnchor(self, anchor.inner)
    THEN Some(RunTreeResolveAnchor(self.run_tree, anchor))
    ELSE None

\* Replica::has_merged_deletion with > for >=
HasMergedDeletionStrict(self, deletion) ==
    self.deletion_map[deletion.deleted_by] > deletion.deletion_ts

\* Replica::has_merged_deletion
HasMergedDeletion(self, deletion) ==
    self.deletion_map[deletion.deleted_by] >= deletion.deletion_ts

\* Replica::has_merged_insertion that compares with the end of the text
HasMergedInsertionEnd(self, insertion) ==
    self.version_map[insertion.inserted_by] > insertion.end

\* Replica::has_merged_insertion
HasMergedInsertion(self, insertion) ==
    self.version_map[insertion.inserted_by] > insertion.start

\* Replica::can_merge_deletion that lets a deletion overtake its predecessors
CanMergeDeletionAnyTs(self, deletion) ==
    /\ self.deletion_map[deletion.deleted_by] < deletion.deletion_ts
    /\ MapGeq(self.version_map, deletion.version_map)

\* Replica::can_merge_deletion that wants the very version map of the deletion
CanMergeDeletionSameMap(self, deletion) ==
    /\ self.deletion_map[deletion.deleted_by] + 1 = deletion.deletion_ts
    /\ self.version_map = deletion.version_map

\* Replica::can_merge_deletion
CanMergeDeletion(self, deletion) ==
    /\ self.deletion_map[deletion.deleted_by] + 1 = deletion.deletion_ts
    /\ MapGeq(self.version_map, deletion.version_map)

\* Replica::can_merge_insertion that lets an insertion overtake its predecessors
CanMergeInsertionAnyStart(self, insertion) ==
    /\ self.version_map[insertion.inserted_by] <= insertion.start
    /\ HasAnchor(self, insertion.anchor)

\* Replica::can_merge_insertion
CanMergeInsertion(self, insertion) ==
    /\ self.version_map[insertion.inserted_by] = insertion.start
    /\ HasAnchor(self, insertion.anchor)

\* Replica::merge_unchecked_deletion that adds the timestamp to the entry
MergeUncheckedDeletionAddsTs(self, deletion) ==
    LET merged == RunTreeMergeDeletion(self.run_tree, deletion)
    IN  [replica |-> [self EXCEPT
                        !.run_tree = merged.tree,
                        !.deletion_map[deletion.deleted_by] =
                            @ + deletion.deletion_ts],
         ret |-> merged.ranges]

\* Replica::merge_unchecked_deletion
MergeUncheckedDeletion(self, deletion) ==
    LET merged == RunTreeMergeDeletion(self.run_tree, deletion)
    IN  [replica |-> [self EXCEPT
                        !.run_tree = merged.tree,
                        !.deletion_map[deletion.deleted_by] =
                            deletion.deletion_ts],
         ret |-> merged.ranges]

\* Replica::merge_unchecked_insertion that leaves the version map alone
MergeUncheckedInsertionSameVersion(self, insertion) ==
    LET merged == RunTreeMergeInsertion(self.run_tree, insertion)
    IN  [replica |-> [self EXCEPT
                        !.run_tree = merged.tree,
                        !.lamport_clock =
                            LamportMerge(@, insertion.lamport_ts)],
         ret |-> merged.offset]

\* Replica::merge_unchecked_insertion
MergeUncheckedInsertion(self, insertion) ==
    LET merged == RunTreeMergeInsertion(self.run_tree, insertion)
    IN  [replica |-> [self EXCEPT
                        !.run_tree = merged.tree,
                        !.version_map[insertion.inserted_by] =
                            @ + InsertionLen(insertion),
                        !.lamport_clock =
                            LamportMerge(@, insertion.lamport_ts)],
         ret |-> merged.offset]

\* Backlog::insert_insertion, Backlog::insert_deletion: the operation joins
\* the ones kept for its replica (kept in ascending start / deletion_ts)
BacklogInsertInsertion(backlog, insertion) ==
    [backlog EXCEPT !.insertions = @ \cup {insertion}]

BacklogInsertDeletion(backlog, deletion) ==
    [backlog EXCEPT !.deletions = @ \cup {deletion}]

\* Replica::integrate_deletion
IntegrateDeletion(self, deletion) ==
    IF DeletionIsNoOp(deletion) \/ HasMergedDeletion(self, deletion)
    THEN [replica |-> self, ret |-> << >>]
    ELSE IF CanMergeDeletion(self, deletion)
    THEN MergeUncheckedDeletion(self, deletion)
    ELSE [replica |-> [self EXCEPT !.backlog =
                          BacklogInsertDeletion(@, deletion)],
          ret |-> << >>]

\* Replica::integrate_insertion that merges the Lamport timestamp before it
\* looks whether the insertion is ready
IntegrateInsertionEagerClock(self, insertion) ==
    IF InsertionIsNoOp(insertion) \/ HasMergedInsertion(self, insertion)
    THEN [replica |-> self, ret |-> None]
    ELSE IF CanMergeInsertion(self, insertion)
    THEN LET merged == MergeUncheckedInsertion(self, insertion)
         IN  [replica |-> merged.replica, ret |-> Some(merged.ret)]
    ELSE [replica |-> [self EXCEPT
                         !.lamport_clock = LamportMerge(@, insertion.lamport_ts),
                         !.backlog = BacklogInsertInsertion(@, insertion)],
          ret |-> None]

\* Replica::integrate_insertion
IntegrateInsertion(self, insertion) ==
    IF InsertionIsNoOp(insertion) \/ HasMergedInsertion(self, insertion)
    THEN [replica |-> self, ret |-> None]
    ELSE IF CanMergeInsertion(self, insertion)
    THEN LET merged == MergeUncheckedInsertion(self, insertion)
         IN  [replica |-> merged.replica, ret |-> Some(merged.ret)]
    ELSE [replica |-> [self EXCEPT !.backlog =
                          BacklogInsertInsertion(@, insertion)],
          ret |-> None]

\* ------------------------------------------------------------- backlog iterators
\* the backlogged operations an iterator may yield now
ReadyInsertions(self) ==
    { ins \in self.backlog.insertions :
        ~HasMergedInsertion(self, ins) /\ CanMergeInsertion(self, ins) }

ReadyDeletions(self) ==
    { del \in self.backlog.deletions :
        ~HasMergedDeletion(self, del) /\ CanMergeDeletion(self, del) }

\* BackloggedInsertions::next when it yields `insertion`
BackloggedInsertionsNext(self, insertion) ==
    LET merged == MergeUncheckedInsertion(self, insertion)
    IN  [replica |-> [merged.replica EXCEPT !.backlog.insertions =
                          @ \ {insertion}],
         ret |-> Some(merged.ret)]

\* BackloggedDeletions::next when it yields `deletion`
BackloggedDeletionsNext(self, deletion) ==
    LET merged == MergeUncheckedDeletion(self, deletion)
    IN  [replica |-> [merged.replica EXCEPT !.backlog.deletions =
                          @ \ {deletion}],
         ret |-> Some(merged.ret)]

\* backlogged_insertions().next(): a ready insertion of the backlog is
\* applied and yielded, or None
NextBackloggedInsertion(self) ==
    IF ReadyInsertions(self) = {} THEN [replica |-> self, ret |-> None]
    ELSE BackloggedInsertionsNext(self,
             CHOOSE ins \in ReadyInsertions(self) : TRUE)

\* backlogged_deletions().next()
NextBackloggedDeletion(self) ==
    IF ReadyDeletions(self) = {} THEN [replica |-> self, ret |-> None]
    ELSE BackloggedDeletionsNext(self,
             CHOOSE del \in ReadyDeletions(self) : TRUE)

\* ------------------------------------------------------------- the system
\* the characters <<replica, index>> of a run tree that are visible (or not)
Chars(tree, visible) ==
    UNION { { <<tree[k].rid, i>> : i \in tree[k].lo..(tree[k].hi - 1) } :
              k \in { j \in 1..Len(tree) : tree[j].visible = visible } }

RECURSIVE TextUpTo(_, _)
\* the visible characters of the first k leaves, in order
TextUpTo(tree, k) ==
    IF k = 0 THEN << >>
    ELSE TextUpTo(tree, k - 1)
         \o [i \in 1..RunLen(tree[k]) |-> <<tree[k].rid, tree[k].lo + i - 1>>]

\* the buffer a replica stands for, as the sequence of its characters
TextOfReplica(self) == TextUpTo(self.run_tree, Len(self.run_tree))

Active == { r \in ReplicaIds : replicas[r] # Absent }

Sent == { log[i] : i \in 1..Len(log) }

\* the offsets and lengths the host passes
Offsets == 0..(Max(MaxInitLen, ObservedInitLen) + MaxOps * MaxInsLen)

\* Replica::new(1, len): one replica, the others do not exist yet
Init ==
    /\ \E len \in 0..MaxInitLen :
         replicas = [r \in ReplicaIds |->
                       IF r = 1 THEN ReplicaNew(1, len) ELSE Absent]
    /\ log = << >>
    /\ history = << >>
    /\ anchors = {}
    /\ gt = None
    /\ called = None

\* Replica::new(1, len) and its fork, the Observer
InitOnce ==
    /\ \E len \in 0..ObservedInitLen :
         replicas = [r \in ReplicaIds |->
                       IF r = 1 THEN ReplicaNew(1, len)
                       ELSE IF r = Observer
                       THEN ReplicaFork(ReplicaNew(1, len), Observer)
                       ELSE Absent]
    /\ log = << >>
    /\ history = << >>
    /\ anchors = {}
    /\ gt = None
    /\ called = None

\* r.fork(new_id)
Fork(r, new_id) ==
    /\ r \in Active
    /\ new_id \notin Active
    /\ replicas' = [replicas EXCEPT ![new_id] = ReplicaFork(replicas[r], new_id)]
    /\ UNCHANGED <<log, history, anchors, gt, called>>

\* r.inserted(at_offset, len)
Inserted(r, at_offset, len) ==
    /\ r \in Active
    /\ Len(log) < MaxOps
    /\ at_offset <= ReplicaLen(replicas[r])
    /\ LET done == ReplicaInserted(replicas[r], at_offset, len)
       IN  /\ replicas' = [replicas EXCEPT ![r] = done.replica]
           /\ log' = IF len = 0 THEN log ELSE Append(log, done.ret)
           /\ history' = IF len = 0 THEN history
                         ELSE Append(history, [erased |-> {}, gone |-> {}])
    /\ UNCHANGED <<anchors, gt, called>>

\* r.deleted(start..end)
Deleted(r, start, end) ==
    /\ r \in Active
    /\ Len(log) < MaxOps
    /\ start <= end
    /\ end <= ReplicaLen(replicas[r])
    /\ LET done == ReplicaDeleted(replicas[r], start, end)
           before == replicas[r].run_tree
       IN  /\ replicas' = [replicas EXCEPT ![r] = done.replica]
           /\ log' = IF start = end THEN log ELSE Append(log, done.ret)
           /\ history' =
                IF start = end THEN history
                ELSE Append(history,
                       [erased |-> Chars(before, TRUE)
                                     \ Chars(done.replica.run_tree, TRUE),
                        gone |-> Chars(before, FALSE)])
    /\ UNCHANGED <<anchors, gt, called>>

\* r.integrate_insertion(&insertion)
DoIntegrateInsertion(r, insertion) ==
    /\ r \in Active
    /\ insertion.kind = "insertion"
    /\ LET done == IntegrateInsertion(replicas[r], insertion)
       IN  /\ replicas' = [replicas EXCEPT ![r] = done.replica]
    /\ UNCHANGED <<log, history, anchors, gt, called>>

\* r.integrate_deletion(&deletion)
DoIntegrateDeletion(r, deletion) ==
    /\ r \in Active
    /\ deletion.kind = "deletion"
    /\ LET done == IntegrateDeletion(replicas[r], deletion)
       IN  /\ replicas' = [replicas EXCEPT ![r] = done.replica]
    /\ UNCHANGED <<log, history, anchors, gt, called>>

\* r.backlogged_insertions().next()
DoBackloggedInsertionsNext(r) ==
    /\ r \in Active
    /\ IF ReadyInsertions(replicas[r]) = {}
       THEN UNCHANGED replicas   \* next() returns None
       ELSE \E ins \in ReadyInsertions(replicas[r]) :
              LET done == BackloggedInsertionsNext(replicas[r], ins)
              IN  /\ replicas' = [replicas EXCEPT ![r] = done.replica]
    /\ UNCHANGED <<log, history, anchors, gt, called>>

\* r.backlogged_deletions().next()
DoBackloggedDeletionsNext(r) ==
    /\ r \in Active
    /\ IF ReadyDeletions(replicas[r]) = {}
       THEN UNCHANGED replicas   \* next() returns None
       ELSE \E del \in ReadyDeletions(replicas[r]) :
              LET done == BackloggedDeletionsNext(replicas[r], del)
              IN  /\ replicas' = [replicas EXCEPT ![r] = done.replica]
    /\ UNCHANGED <<log, history, anchors, gt, called>>

\* the character an anchor made at at_offset sticks to (<<0, 0>> for the
\* two sentinels, which stick to no character)
AttachedTo(self, at_offset, with_bias) ==
    IF with_bias = "Left"
    THEN IF at_offset = 0 THEN <<0, 0>> ELSE TextOfReplica(self)[at_offset]
    ELSE IF at_offset = ReplicaLen(self) THEN <<0, 0>>
         ELSE TextOfReplica(self)[at_offset + 1]

\* r.create_anchor(at_offset, with_bias)
CreateAnchor(r, at_offset, with_bias) ==
    /\ r \in Active
    /\ Cardinality(anchors) < MaxAnchors
    /\ at_offset <= ReplicaLen(replicas[r])
    /\ anchors' = anchors \cup
         { [anchor |-> ReplicaCreateAnchor(replicas[r], at_offset, with_bias),
            by |-> r, at_offset |-> at_offset, bias |-> with_bias,
            char |-> AttachedTo(replicas[r], at_offset, with_bias)] }
    /\ UNCHANGED <<replicas, log, history, gt, called>>

\* The operation has not reached the replica yet: it is neither merged
\* there nor waiting in its backlog.
Undelivered(self, op) ==
    IF op.kind = "insertion"
    THEN ~HasMergedInsertion(self, op) /\ op \notin self.backlog.insertions
    ELSE ~HasMergedDeletion(self, op) /\ op \notin self.backlog.deletions

\* the network hands an insertion to r, once
DeliverInsertion(r, insertion) ==
    /\ r \in Active
    /\ insertion.kind = "insertion"
    /\ Undelivered(replicas[r], insertion)
    /\ DoIntegrateInsertion(r, insertion)

\* the network hands a deletion to r, once
DeliverDeletion(r, deletion) ==
    /\ r \in Active
    /\ deletion.kind = "deletion"
    /\ Undelivered(replicas[r], deletion)
    /\ DoIntegrateDeletion(r, deletion)

\* Two writers; every operation ever generated, and the no-op, can be
\* handed to a replica in any order and any number of times.
Next ==
    \/ \E r \in ReplicaIds, new_id \in Writers : Fork(r, new_id)
    \/ \E r \in Writers, at_offset \in Offsets, len \in 0..MaxInsLen :
         Inserted(r, at_offset, len)
    \/ \E r \in Writers, start, end \in Offsets : Deleted(r, start, end)
    \/ \E r \in ReplicaIds, insertion \in Sent \cup {InsertionNoOp} :
         DoIntegrateInsertion(r, insertion)
    \/ \E r \in ReplicaIds, deletion \in Sent \cup {DeletionNoOp} :
         DoIntegrateDeletion(r, deletion)
    \/ \E r \in ReplicaIds : DoBackloggedInsertionsNext(r)
    \/ \E r \in ReplicaIds : DoBackloggedDeletionsNext(r)

Spec == Init /\ [][Next]_vars

\* Two writers and the Observer; every operation reaches every other
\* replica at most once, in any order.
NextOnce ==
    \/ \E r \in ReplicaIds, new_id \in Writers : Fork(r, new_id)
    \/ \E r \in Writers, at_offset \in Offsets, len \in 0..MaxInsLen :
         Len(log) < ObservedOps /\ Inserted(r, at_offset, len)
    \/ \E r \in Writers, start, end \in Offsets :
         Len(log) < ObservedOps /\ Deleted(r, start, end)
    \/ \E r \in ReplicaIds, insertion \in Sent : DeliverInsertion(r, insertion)
    \/ \E r \in ReplicaIds, deletion \in Sent : DeliverDeletion(r, deletion)
    \/ \E r \in ReplicaIds : DoBackloggedInsertionsNext(r)
    \/ \E r \in ReplicaIds : DoBackloggedDeletionsNext(r)

SpecOnce == InitOnce /\ [][NextOnce]_vars

\* Two writers that also create anchors; the operations reach the replicas
\* in any order and any number of times.
NextAnchor ==
    \/ \E r \in ReplicaIds, new_id \in Writers : Fork(r, new_id)
    \/ \E r \in Writers, at_offset \in Offsets, len \in 0..MaxInsLen :
         Len(log) < AnchorOps /\ Inserted(r, at_offset, len)
    \/ \E r \in Writers, start, end \in Offsets :
         Len(log) < AnchorOps /\ Deleted(r, start, end)
    \/ \E r \in ReplicaIds, insertion \in Sent :
         DoIntegrateInsertion(r, insertion)
    \/ \E r \in ReplicaIds, deletion \in Sent :
         DoIntegrateDeletion(r, deletion)
    \/ \E r \in ReplicaIds : DoBackloggedInsertionsNext(r)
    \/ \E r \in ReplicaIds : DoBackloggedDeletionsNext(r)
    \/ \E r \in ReplicaIds, at_offset \in Offsets, with_bias \in AnchorBias :
         CreateAnchor(r, at_offset, with_bias)

SpecAnchor == Init /\ [][NextAnchor]_vars

\* ------------------------------------------------------------- observations
\* Two leaves that are pieces of one run, one after the other, with the same
\* visibility: together they are one run with one character interval.
SameRun(a, b) ==
    /\ a.rid = b.rid
    /\ a.run_ts = b.run_ts
    /\ a.lamport_ts = b.lamport_ts
    /\ a.visible = b.visible
    /\ a.hi = b.lo

RECURSIVE RunsUpTo(_, _)
\* the runs held by the first k leaves, pieces of one run joined
RunsUpTo(tree, k) ==
    IF k = 0 THEN << >>
    ELSE LET before == RunsUpTo(tree, k - 1)
             n == Len(before)
         IN  IF n > 0 /\ SameRun(before[n], tree[k])
             THEN [before EXCEPT ![n].hi = tree[k].hi]
             ELSE Append(before, tree[k])

\* the in-order sequence of runs of a run tree
Runs(tree) == RunsUpTo(tree, Len(tree))

\* what a replica shows of its state: the run sequence, len(), the maps,
\* the Lamport clock and the backlog
StateOf(self) ==
    [runs |-> Runs(self.run_tree),
     len |-> ReplicaLen(self),
     version_map |-> self.version_map,
     deletion_map |-> self.deletion_map,
     lamport_clock |-> self.lamport_clock,
     backlog |-> self.backlog]

\* has_merged_*, can_merge_* and integrate_* for an operation of either kind
HasMerged(self, op) ==
    IF op.kind = "insertion" THEN HasMergedInsertion(self, op)
    ELSE HasMergedDeletion(self, op)

CanMerge(self, op) ==
    IF op.kind = "insertion" THEN CanMergeInsertion(self, op)
    ELSE CanMergeDeletion(self, op)

Integrate(self, op) ==
    IF op.kind = "insertion" THEN IntegrateInsertion(self, op).replica
    ELSE IntegrateDeletion(self, op).replica

\* the operations of the log that a replica has integrated (or generated)
Integrated(self) == { op \in Sent : HasMerged(self, op) }

\* every character a run tree holds, visible or not
AllChars(tree) == Chars(tree, TRUE) \cup Chars(tree, FALSE)

\* the characters of an insertion
TextOf(insertion) ==
    { <<insertion.inserted_by, i>> : i \in insertion.start..(insertion.end - 1) }

\* what the call that returned `op` did at its replica
EffectOf(op) == history[CHOOSE i \in 1..Len(log) : log[i] = op]

SentInsertions == { op \in Sent : op.kind = "insertion" }
SentDeletions == { op \in Sent : op.kind = "deletion" }

\* ------------------------------------------------------------- claims
\* C1: any two replicas that have integrated the same set of insertions and
\* deletions, in whatever order, hold the same in-order sequence of runs (same
\* character intervals, same visibility) and have the same len().
C1_Convergence ==
    \A r1, r2 \in Active :
        Integrated(replicas[r1]) = Integrated(replicas[r2])
        => /\ Runs(replicas[r1].run_tree) = Runs(replicas[r2].run_tree)
           /\ ReplicaLen(replicas[r1]) = ReplicaLen(replicas[r2])

\* two replicas that inserted concurrently at the same anchor, one of which
\* also deleted, and that have each integrated everything
C1_Witness ==
    \E r1, r2 \in Active :
        /\ r1 # r2
        /\ \E a, b \in SentInsertions :
             /\ a.inserted_by = r1
             /\ b.inserted_by = r2
             /\ a.anchor = b.anchor
        /\ SentDeletions # {}
        /\ Integrated(replicas[r1]) = Sent
        /\ Integrated(replicas[r2]) = Sent

\* C2: for a replica state S and two distinct operations that are both ready
\* in S, integrating one then the other gives the same run sequence, len,
\* version map, deletion map, Lamport clock and backlog as the other order.
C2_Commutativity ==
    \A r \in Active : \A a, b \in Sent :
        (a # b /\ CanMerge(replicas[r], a) /\ CanMerge(replicas[r], b))
        => StateOf(Integrate(Integrate(replicas[r], a), b))
             = StateOf(Integrate(Integrate(replicas[r], b), a))

\* a replica for which an insertion of one replica and a deletion of another
\* are both ready, the insertion being anchored inside the deleted range
C2_Witness ==
    \E r \in Active : \E a \in SentInsertions, b \in SentDeletions :
        /\ a.inserted_by # b.deleted_by
        /\ r \notin {a.inserted_by, b.deleted_by}
        /\ CanMerge(replicas[r], a)
        /\ CanMerge(replicas[r], b)
        /\ a.anchor.replica_id = b.start.replica_id
        /\ a.anchor.replica_id = b.end.replica_id
        /\ b.start.offset < a.anchor.offset
        /\ a.anchor.offset < b.end.offset

C6_InsertionReadiness ==
    \A r \in Active : \A ins \in SentInsertions :
        LET self == replicas[r]
            done == IntegrateInsertion(self, ins)
            ready == /\ self.version_map[ins.inserted_by] = ins.start
                     /\ self.version_map[ins.anchor.replica_id]
                          >= ins.anchor.offset
            merged == self.version_map[ins.inserted_by] > ins.start
            applied == /\ done.ret # None
                       /\ TextOf(ins) \cap AllChars(self.run_tree) = {}
                       /\ TextOf(ins) \subseteq Chars(done.replica.run_tree, TRUE)
                       /\ done.replica.version_map[ins.inserted_by] = ins.end
            ignored == done.ret = None /\ done.replica = self
            backlogged ==
                /\ done.ret = None
                /\ ins \in done.replica.backlog.insertions
                /\ done.replica = [self EXCEPT !.backlog = done.replica.backlog]
        IN  /\ ~(ready /\ merged)
            /\ applied <=> ready
            /\ merged => ignored
            /\ (~ready /\ ~merged) => backlogged

\* a replica for which one insertion is ready and another one, next in line
\* for its replica, waits for its anchor; the first is merged somewhere else
C6_Witness ==
    \E r, r2 \in Active : \E a, b \in SentInsertions :
        /\ IntegrateInsertion(replicas[r], a).ret # None
        /\ replicas[r].version_map[b.inserted_by] = b.start
        /\ replicas[r].version_map[b.anchor.replica_id] < b.anchor.offset
        /\ replicas[r2].version_map[a.inserted_by] > a.start

\* C7: integrate_deletion applies a deletion at once exactly when
\* deletion_map[deleted_by] + 1 = deletion_ts and the local version map is
\* pointwise >= the deletion's; so it is applied only where every insertion
\* its generator had seen, for the replicas it touches, is integrated.  A
\* deletion neither ready nor merged is backlogged, and no range is returned.
C7_DeletionReadiness ==
    \A r \in Active : \A del \in SentDeletions :
        LET self == replicas[r]
            done == IntegrateDeletion(self, del)
            ready == /\ self.deletion_map[del.deleted_by] + 1 = del.deletion_ts
                     /\ \A i \in IdDomain :
                          self.version_map[i] >= del.version_map[i]
            merged == self.deletion_map[del.deleted_by] >= del.deletion_ts
            applied ==
                /\ self.deletion_map[del.deleted_by] # del.deletion_ts
                /\ done.replica.deletion_map[del.deleted_by] = del.deletion_ts
            backlogged ==
                /\ done.ret = << >>
                /\ del \in done.replica.backlog.deletions
                /\ done.replica = [self EXCEPT !.backlog = done.replica.backlog]
        IN  /\ applied <=> ready
            /\ applied =>
                 /\ \A ins \in SentInsertions :
                      ins.end <= del.version_map[ins.inserted_by]
                      => TextOf(ins) \subseteq AllChars(self.run_tree)
                 /\ EffectOf(del).erased \subseteq AllChars(self.run_tree)
                 /\ EffectOf(del).erased
                      \cap Chars(done.replica.run_tree, TRUE) = {}
            /\ (~ready /\ ~merged) => backlogged

\* a replica for which a deletion is next in line for its replica but waits
\* for an insertion, while another replica can apply a deletion at once
C7_Witness ==
    /\ \E r \in Active : \E del \in SentDeletions :
         /\ replicas[r].deletion_map[del.deleted_by] + 1 = del.deletion_ts
         /\ ~MapGeq(replicas[r].version_map, del.version_map)
         /\ del \notin replicas[r].backlog.deletions
    /\ \E r \in Active : \E del \in SentDeletions :
         IntegrateDeletion(replicas[r], del).ret # << >>

\* no run tree holds a character twice
NoRepeat(tree) ==
    \A j, k \in 1..Len(tree) :
        (j # k /\ tree[j].rid = tree[k].rid)
        => (tree[j].hi <= tree[k].lo \/ tree[k].hi <= tree[j].lo)

\* What one step may do to each replica: its version map grows for a replica
\* only by one insertion of that replica, the one that starts where the map
\* stood, and the characters added to the run tree are the characters of
\* that insertion; its deletion map grows for a replica by one, with a
\* deletion of that replica; an operation leaves the backlog only applied.
OrderedStep ==
    \A r \in Active :
        LET old == replicas[r]
            new == replicas'[r]
            added == AllChars(new.run_tree) \ AllChars(old.run_tree)
        IN  /\ AllChars(old.run_tree) \subseteq AllChars(new.run_tree)
            /\ added = UNION { { <<o, i>> :
                                 i \in old.version_map[o]
                                         ..(new.version_map[o] - 1) } :
                               o \in IdDomain }
            /\ \A o \in IdDomain :
                 /\ new.version_map[o] # old.version_map[o]
                    => \E ins \in SentInsertions' :
                         /\ ins.inserted_by = o
                         /\ ins.start = old.version_map[o]
                         /\ ins.end = new.version_map[o]
                 /\ new.deletion_map[o] # old.deletion_map[o]
                    => /\ new.deletion_map[o] = old.deletion_map[o] + 1
                       /\ \E del \in SentDeletions' :
                            /\ del.deleted_by = o
                            /\ del.deletion_ts = new.deletion_map[o]
            /\ \A op \in old.backlog.insertions \ new.backlog.insertions :
                 HasMergedInsertion(new, op)
            /\ \A op \in old.backlog.deletions \ new.backlog.deletions :
                 HasMergedDeletion(new, op)

\* an operation that comes before its turn is kept: once integrate_* has
\* returned it is in the backlog
KeptForLater ==
    \A r \in Active : \A op \in Sent :
        (~HasMerged(replicas[r], op) /\ ~CanMerge(replicas[r], op))
        => LET kept == Integrate(replicas[r], op).backlog
           IN  op \in kept.insertions \cup kept.deletions

\* C8: at every replica the insertions of a replica R are applied in the
\* order R generated them (ascending start, no gap, no repetition) and its
\* deletions in ascending deletion_ts without gaps, whatever the order of
\* arrival; an operation that arrives before its predecessors is not lost,
\* it stays in the backlog until it is applied.
C8_PerOriginOrder ==
    /\ [](\A r \in Active : NoRepeat(replicas[r].run_tree))
    /\ []KeptForLater
    /\ [][OrderedStep]_vars

\* a replica that holds in its backlog an insertion and a deletion that came
\* before the insertion they follow at their replica
C8_Witness ==
    \E r \in Active : \E a, b \in SentInsertions :
        /\ a.inserted_by = b.inserted_by
        /\ a.inserted_by # r
        /\ a.end = b.start
        /\ ~HasMergedInsertion(replicas[r], a)
        /\ b \in replicas[r].backlog.insertions
        /\ replicas[r].backlog.deletions # {}

\* R1 = new(1, 0), R2 = R1.fork(2), both insert one character at offset 0 and
\* integrate the insertion of the other: len() is 2 at both, the character
\* of replica 2 comes first
TieScenario ==
    LET R1 == ReplicaNew(1, 0)
        R2 == ReplicaFork(R1, 2)
        ins1 == ReplicaInserted(R1, 0, 1)
        ins2 == ReplicaInserted(R2, 0, 1)
        end1 == IntegrateInsertion(ins1.replica, ins2.ret)
        end2 == IntegrateInsertion(ins2.replica, ins1.ret)
    IN  /\ end1.ret = Some(0)
        /\ end2.ret = Some(1)
        /\ ReplicaLen(end1.replica) = 2
        /\ ReplicaLen(end2.replica) = 2
        /\ TextOfReplica(end1.replica) = << <<2, 0>>, <<1, 0>> >>
        /\ TextOfReplica(end2.replica) = << <<2, 0>>, <<1, 0>> >>

\* C9: the runs inserted against one anchor stand in the same order at every
\* replica that holds them: higher lamport_ts first, and for equal
\* lamport_ts the higher inserting replica first.  With R1 = new(1, 0) and
\* R2 = R1.fork(2) both inserting a character at offset 0 and integrating
\* each other's insertion, both have len() 2 and replica 2's character first.
C9_TieBreak ==
    /\ \A r \in Active : \A a, b \in SentInsertions :
         ( /\ a.anchor = b.anchor
           /\ HasMergedInsertion(replicas[r], a)
           /\ HasMergedInsertion(replicas[r], b)
           /\ \/ a.lamport_ts > b.lamport_ts
              \/ /\ a.lamport_ts = b.lamport_ts
                 /\ a.inserted_by > b.inserted_by )
         => LeafOfChar(replicas[r].run_tree, a.inserted_by, a.start)
              < LeafOfChar(replicas[r].run_tree, b.inserted_by, b.start)
    /\ TieScenario

\* the two replicas of the scenario, each with both insertions
C9_Witness ==
    /\ Len(log) = 2
    /\ \E a, b \in SentInsertions :
         /\ a.inserted_by = 1
         /\ b.inserted_by = 2
         /\ IsZero(a.anchor)
         /\ IsZero(b.anchor)
         /\ a.lamport_ts = b.lamport_ts
    /\ \A r \in Writers :
         /\ r \in Active
         /\ Integrated(replicas[r]) = Sent
         /\ ReplicaLen(replicas[r]) = 2
         /\ TextOfReplica(replicas[r]) = << <<2, 0>>, <<1, 0>> >>

\* the offset of a visible character in the buffer of a run tree
OffsetOf(tree, char) ==
    LET k == LeafOfChar(tree, char[1], char[2])
    IN  SumLen(tree, k - 1) + (char[2] - tree[k].lo)

\* the offsets a list of ranges covers
Covered(ranges) ==
    UNION { ranges[i][1]..(ranges[i][2] - 1) : i \in 1..Len(ranges) }

\* ranges that are not empty, ascend and do not touch
Ascending(ranges) ==
    \A i \in 1..Len(ranges) :
        /\ ranges[i][1] < ranges[i][2]
        /\ i < Len(ranges) => ranges[i][2] < ranges[i + 1][1]

\* the characters a replica stops showing when it merges the deletion
HiddenBy(self, deletion) ==
    Chars(self.run_tree, TRUE)
      \ Chars(MergeUncheckedDeletion(self, deletion).replica.run_tree, TRUE)

\* R1 = new(1, 4), R2 = R1.fork(2), del = R1.deleted(1..3), R2.inserted(at, 1):
\* what R2.integrate_deletion(&del) returns
SplitScenario(at) ==
    LET R1 == ReplicaNew(1, 4)
        R2 == ReplicaFork(R1, 2)
        del == ReplicaDeleted(R1, 1, 3).ret
        ins == ReplicaInserted(R2, at, 1)
    IN  IntegrateDeletion(ins.replica, del).ret

\* The statement of C10 as it stands: merging a ready deletion hides the
\* still-visible characters its generator deleted, and no other character.
C10_HidesExactlyTheDeleted ==
    \A r \in Active : \A del \in SentDeletions :
        CanMergeDeletion(replicas[r], del)
        => HiddenBy(replicas[r], del)
             = EffectOf(del).erased \cap Chars(replicas[r].run_tree, TRUE)

\* C10: merging a ready deletion hides every still-visible character its
\* generator deleted; any other character it hides was in the deleted range
\* and invisible already at the generator when deleted() was called; the
\* characters inserted concurrently stay visible, and the ranges returned
\* are, in ascending order, the offsets of the characters hidden.  With R1 =
\* new(1, 4), R2 = R1.fork(2), del = R1.deleted(1..3): after R2.inserted(2, 1)
\* R2.integrate_deletion(&del) returns [1..2, 3..4], after R2.inserted(0, 1)
\* it returns [2..4].
C10_RemoteDeletion ==
    /\ \A r \in Active : \A del \in SentDeletions :
         CanMergeDeletion(replicas[r], del)
         => LET self == replicas[r]
                hidden == HiddenBy(self, del)
                ranges == IntegrateDeletion(self, del).ret
            IN  /\ EffectOf(del).erased \cap Chars(self.run_tree, TRUE)
                     \subseteq hidden
                /\ hidden \subseteq EffectOf(del).erased \cup EffectOf(del).gone
                /\ Ascending(ranges)
                /\ Covered(ranges)
                     = { OffsetOf(self.run_tree, c) : c \in hidden }
    /\ SplitScenario(2) = << <<1, 2>>, <<3, 4>> >>
    /\ SplitScenario(0) = << <<2, 4>> >>

\* a replica that inserted inside a range another replica deleted meanwhile:
\* the deletion is ready there and its ranges skip the insertion
C10_Witness ==
    \E r \in Active : \E del \in SentDeletions, ins \in SentInsertions :
        /\ ins.inserted_by = r
        /\ del.deleted_by # r
        /\ CanMergeDeletion(replicas[r], del)
        /\ Len(IntegrateDeletion(replicas[r], del).ret) = 2
        /\ TextOf(ins) \cap HiddenBy(replicas[r], del) = {}

RECURSIVE OwnLen(_)
\* how many characters replica 1 has inserted, by the first k entries of the log
OwnLen(k) ==
    IF k = 0 THEN 0
    ELSE OwnLen(k - 1)
         + (IF log[k].kind = "insertion" /\ log[k].inserted_by = 1
            THEN InsertionLen(log[k]) ELSE 0)

\* the length of the buffer Replica::new was given
InitialLen == replicas[1].version_map[1] - OwnLen(Len(log))

RECURSIVE Replay(_, _)
\* a replica after the first k operations of the log were handed to it, in
\* the order they were generated
Replay(self, k) ==
    IF k = 0 THEN self ELSE Integrate(Replay(self, k - 1), log[k])

\* the initial replica with the whole log delivered in order
InOrder == Replay(ReplicaNew(1, InitialLen), Len(log))

RECURSIVE Drain(_)
\* the host calls backlogged_insertions().next() and
\* backlogged_deletions().next() until both return None
Drain(self) ==
    IF ReadyInsertions(self) # {}
    THEN Drain(BackloggedInsertionsNext(self,
                 CHOOSE ins \in ReadyInsertions(self) : TRUE).replica)
    ELSE IF ReadyDeletions(self) # {}
    THEN Drain(BackloggedDeletionsNext(self,
                 CHOOSE del \in ReadyDeletions(self) : TRUE).replica)
    ELSE self

\* every operation of the log has reached the replica
Delivered(self) == \A op \in Sent : ~Undelivered(self, op)

\* the backlog is empty and the run sequence and len() are the ones of
\* in-order delivery
AsInOrder(self) ==
    /\ self.backlog = [insertions |-> {}, deletions |-> {}]
    /\ Runs(self.run_tree) = Runs(InOrder.run_tree)
    /\ ReplicaLen(self) = ReplicaLen(InOrder)

\* C5: once every operation has been delivered to a replica, exactly once
\* and in whatever order, and the host has drained backlogged_insertions()
\* and backlogged_deletions() until they return None, the backlog is empty
\* and the run sequence and len() are those of in-order delivery.
C5_BacklogLiveness ==
    \A r \in Active :
        Delivered(replicas[r])
        => /\ AsInOrder(Drain(replicas[r]))
           /\ (ReadyInsertions(replicas[r]) = {}
               /\ ReadyDeletions(replicas[r]) = {})
              => AsInOrder(replicas[r])

\* the Observer when everything has reached it, the operations of one
\* replica in the wrong order: the first has just been applied, its
\* successor waits in the backlog for the host to drain it
C5_Witness ==
    /\ Observer \in Active
    /\ Len(log) = ObservedOps
    /\ Delivered(replicas[Observer])
    /\ \E a, b \in Sent :
         /\ HasMerged(replicas[Observer], a)
         /\ b \in replicas[Observer].backlog.insertions
                    \cup replicas[Observer].backlog.deletions
         /\ CanMerge(replicas[Observer], b)
         /\ \E i, j \in 1..Len(log) : i < j /\ log[i] = a /\ log[j] = b

\* the leaves of which the deletion hides a piece
HiddenLeaves(tree, deletion) ==
    { k \in 1..Len(tree) : Hides(tree, k, deletion) }

\* the ranges are not empty and any later one starts after the end of any
\* earlier one
Separated(ranges) ==
    /\ \A i \in 1..Len(ranges) : ranges[i][1] < ranges[i][2]
    /\ \A i, j \in 1..Len(ranges) : i < j => ranges[i][2] < ranges[j][1]

\* two pieces hidden in different leaves with nothing visible between them
\* are inside one and the same range
JoinedWhereAdjacent(tree, deletion, ranges) ==
    \A j, k \in HiddenLeaves(tree, deletion) :
        (j < k /\ SumLen(tree, j - 1)
                    + (HiddenTo(tree, j, deletion) - tree[j].lo)
                  = SumLen(tree, k - 1)
                    + (HiddenFrom(tree, k, deletion) - tree[k].lo))
        => \E i \in 1..Len(ranges) :
             /\ ranges[i][1] < SumLen(tree, j - 1)
                                + (HiddenTo(tree, j, deletion) - tree[j].lo)
             /\ SumLen(tree, k - 1)
                  + (HiddenFrom(tree, k, deletion) - tree[k].lo) < ranges[i][2]

\* C11: the ranges returned by integrate_deletion, and those yielded by
\* backlogged_deletions, are each non-empty, ascend and are strictly
\* separated (ranges[i].end < ranges[j].start for i < j); deleted pieces that
\* are adjacent in the buffer are reported as one range.
C11_RangesSeparated ==
    \A r \in Active : \A del \in SentDeletions \cup {DeletionNoOp} :
        LET self == replicas[r]
            direct == IntegrateDeletion(self, del).ret
        IN  /\ Separated(direct)
            /\ CanMergeDeletion(self, del)
               => JoinedWhereAdjacent(self.run_tree, del, direct)
            /\ del \in ReadyDeletions(self)
               => LET yielded == BackloggedDeletionsNext(self, del).ret.value
                  IN  /\ Separated(yielded)
                      /\ JoinedWhereAdjacent(self.run_tree, del, yielded)

\* a deletion that hides pieces of two leaves adjacent in the buffer, which
\* come back as one range, at a replica where it is ready; and a deletion
\* that waits in a backlog and is ready there
C11_Witness ==
    /\ \E r \in Active : \E del \in SentDeletions :
         /\ CanMergeDeletion(replicas[r], del)
         /\ Cardinality(HiddenLeaves(replicas[r].run_tree, del)) >= 2
         /\ Len(IntegrateDeletion(replicas[r], del).ret) = 1
    /\ \E r \in Active : \E del \in ReadyDeletions(replicas[r]) :
         BackloggedDeletionsNext(replicas[r], del).ret.value # << >>

RECURSIVE RangesLen(_)
\* the sum of the lengths of the ranges
RangesLen(ranges) ==
    IF ranges = << >> THEN 0
    ELSE (ranges[1][2] - ranges[1][1]) + RangesLen(Tail(ranges))

\* the host's buffer after it has put `chars` at `offset`
BufferInsert(buffer, offset, chars) ==
    SubSeq(buffer, 1, offset) \o chars \o SubSeq(buffer, offset + 1, Len(buffer))

RECURSIVE BufferDelete(_, _, _)
\* the host's buffer after it has removed the offsets of the ranges from
\* its first k characters
BufferDelete(buffer, k, ranges) ==
    IF k = 0 THEN << >>
    ELSE BufferDelete(buffer, k - 1, ranges)
         \o (IF (k - 1) \in Covered(ranges) THEN << >> ELSE << buffer[k] >>)

\* the characters of an insertion, in order
TextSeq(insertion) ==
    [i \in 1..InsertionLen(insertion) |->
        <<insertion.inserted_by, insertion.start + i - 1>>]

\* the call returned Some(offset): the offset is within the buffer as it
\* is before the call, len() grows by the length of the insertion and the
\* buffer is the old one with the text put at the offset; it returned
\* None: the buffer and len() stay
InsertionTracked(self, insertion, done) ==
    IF done.ret # None
    THEN /\ done.ret.value <= ReplicaLen(self)
         /\ ReplicaLen(done.replica)
              = ReplicaLen(self) + InsertionLen(insertion)
         /\ TextOfReplica(done.replica)
              = BufferInsert(TextOfReplica(self), done.ret.value,
                             TextSeq(insertion))
    ELSE /\ ReplicaLen(done.replica) = ReplicaLen(self)
         /\ TextOfReplica(done.replica) = TextOfReplica(self)

\* the ranges lie within [0, len() before the call], len() shrinks by the
\* sum of their lengths and the buffer is the old one without them
DeletionTracked(self, ranges, after) ==
    /\ \A i \in 1..Len(ranges) :
         0 <= ranges[i][1] /\ ranges[i][2] <= ReplicaLen(self)
    /\ ReplicaLen(after) = ReplicaLen(self) - RangesLen(ranges)
    /\ TextOfReplica(after)
         = BufferDelete(TextOfReplica(self), ReplicaLen(self), ranges)

\* C12: every offset handed to the host is valid in the buffer as it is at
\* that moment and len() tracks the host's buffer: an offset returned by
\* integrate_insertion or backlogged_insertions is <= len() before the call
\* and len() grows by the length of the insertion; the ranges returned by
\* integrate_deletion or backlogged_deletions lie within [0, len() before
\* the call] and len() shrinks by the sum of their lengths; inserted(o, n)
\* grows len() by n and deleted(s..e) shrinks it by e - s.
C12_OffsetsTrackLen ==
    \A r \in Active :
        LET self == replicas[r]
        IN  /\ \A ins \in SentInsertions \cup {InsertionNoOp} :
                 InsertionTracked(self, ins, IntegrateInsertion(self, ins))
            /\ \A ins \in ReadyInsertions(self) :
                 InsertionTracked(self, ins,
                                  BackloggedInsertionsNext(self, ins))
            /\ \A del \in SentDeletions \cup {DeletionNoOp} :
                 LET done == IntegrateDeletion(self, del)
                 IN  DeletionTracked(self, done.ret, done.replica)
            /\ \A del \in ReadyDeletions(self) :
                 LET done == BackloggedDeletionsNext(self, del)
                 IN  DeletionTracked(self, done.ret.value, done.replica)
            /\ \A o \in 0..ReplicaLen(self), n \in 0..MaxInsLen :
                 ReplicaLen(ReplicaInserted(self, o, n).replica)
                   = ReplicaLen(self) + n
            /\ \A b \in 0..ReplicaLen(self) : \A a \in 0..b :
                 ReplicaLen(ReplicaDeleted(self, a, b).replica)
                   = ReplicaLen(self) - (b - a)

\* a replica that holds a tombstone and for which an insertion is ready
\* that lands after the start of the buffer, and a replica for which a
\* deletion is ready that comes back as two ranges
C12_Witness ==
    /\ \E r \in Active : \E ins \in SentInsertions :
         LET done == IntegrateInsertion(replicas[r], ins)
         IN  /\ done.ret # None
             /\ 0 < done.ret.value
             /\ Chars(replicas[r].run_tree, FALSE) # {}
    /\ \E r \in Active : \E del \in SentDeletions :
         Len(IntegrateDeletion(replicas[r], del).ret) = 2

\* R1 = new(1, 2), R2 = R1.fork(2); R1 inserts c, d, e at the offsets 2, 3, 4
\* and R2 receives e, d, c: None, None, Some(2); the iterator then yields
\* the offset 3, then 4, then None
BacklogScenario ==
    LET R1 == ReplicaNew(1, 2)
        R2 == ReplicaFork(R1, 2)
        c == ReplicaInserted(R1, 2, 1)
        d == ReplicaInserted(c.replica, 3, 1)
        e == ReplicaInserted(d.replica, 4, 1)
        got_e == IntegrateInsertion(R2, e.ret)
        got_d == IntegrateInsertion(got_e.replica, d.ret)
        got_c == IntegrateInsertion(got_d.replica, c.ret)
        first == NextBackloggedInsertion(got_c.replica)
        second == NextBackloggedInsertion(first.replica)
        third == NextBackloggedInsertion(second.replica)
    IN  /\ got_e.ret = None
        /\ got_d.ret = None
        /\ got_c.ret = Some(2)
        /\ first.ret = Some(3)
        /\ second.ret = Some(4)
        /\ third.ret = None
        /\ third.replica.backlog.insertions = {}
        /\ ReplicaLen(third.replica) = 5

\* the readiness predicates, on the counters
InsertionIsReady(self, ins) ==
    /\ self.version_map[ins.inserted_by] = ins.start
    /\ self.version_map[ins.anchor.replica_id] >= ins.anchor.offset

DeletionIsReady(self, del) ==
    /\ self.deletion_map[del.deleted_by] + 1 = del.deletion_ts
    /\ \A i \in IdDomain : self.version_map[i] >= del.version_map[i]

\* C13: each next() of backlogged_insertions (backlogged_deletions) applies
\* and yields one backlogged operation whose readiness predicate holds in
\* the current state and removes it from the backlog; it returns None only
\* when no backlogged operation of that kind is ready; what a yield makes
\* ready is released by the calls that follow.  With R1 = new(1, 2), R2 =
\* R1.fork(2) and R1's insertions c, d, e at 2, 3, 4 delivered to R2 as e, d,
\* c: None, None, Some(2), and the iterator yields 3, then 4, then None.
C13_BacklogIterators ==
    /\ \A r \in Active :
         LET self == replicas[r]
             ins == NextBackloggedInsertion(self)
             del == NextBackloggedDeletion(self)
         IN  /\ ins.ret = None
                <=> ~\E op \in self.backlog.insertions :
                       InsertionIsReady(self, op)
             /\ del.ret = None
                <=> ~\E op \in self.backlog.deletions :
                       DeletionIsReady(self, op)
             /\ \A op \in self.backlog.insertions :
                  InsertionIsReady(self, op)
                  => LET done == BackloggedInsertionsNext(self, op)
                     IN  /\ op \in ReadyInsertions(self)
                         /\ done.ret # None
                         /\ op \notin done.replica.backlog.insertions
                         /\ done.replica.backlog.insertions
                              = self.backlog.insertions \ {op}
                         /\ TextOf(op) \subseteq
                              Chars(done.replica.run_tree, TRUE)
                         /\ HasMergedInsertion(done.replica, op)
             /\ \A op \in self.backlog.deletions :
                  DeletionIsReady(self, op)
                  => LET done == BackloggedDeletionsNext(self, op)
                     IN  /\ op \in ReadyDeletions(self)
                         /\ done.ret # None
                         /\ done.replica.backlog.deletions
                              = self.backlog.deletions \ {op}
                         /\ HasMergedDeletion(done.replica, op)
             /\ ins.ret # None
                => \A op \in ins.replica.backlog.insertions :
                     InsertionIsReady(ins.replica, op)
                     => NextBackloggedInsertion(ins.replica).ret # None
    /\ BacklogScenario

\* a replica whose backlog holds two insertions of one replica, the first
\* ready and the second ready once the iterator has yielded the first
C13_Witness ==
    \E r \in Active : \E a, b \in replicas[r].backlog.insertions :
        /\ a.inserted_by = b.inserted_by
        /\ InsertionIsReady(replicas[r], a)
        /\ ~InsertionIsReady(replicas[r], b)
        /\ NextBackloggedInsertion(replicas[r]).ret # None
        /\ InsertionIsReady(NextBackloggedInsertion(replicas[r]).replica, b)

\* the operation is neither ready nor already merged at the replica
MustWait(self, op) ==
    IF op.kind = "insertion"
    THEN /\ ~InsertionIsReady(self, op)
         /\ ~(self.version_map[op.inserted_by] > op.start)
    ELSE /\ ~DeletionIsReady(self, op)
         /\ ~(self.deletion_map[op.deleted_by] >= op.deletion_ts)

\* C14: when integrate_insertion or integrate_deletion receives an operation
\* that is neither ready nor already merged, the run tree, len(), the version
\* map, the deletion map and the Lamport clock stay as they are; only the
\* backlog changes: it now holds the operation.
C14_BacklogFrame ==
    \A r \in Active : \A op \in Sent :
        MustWait(replicas[r], op)
        => LET self == replicas[r]
               after == Integrate(self, op)
               kept == after.backlog.insertions \cup after.backlog.deletions
           IN  /\ after.run_tree = self.run_tree
               /\ ReplicaLen(after) = ReplicaLen(self)
               /\ after.version_map = self.version_map
               /\ after.deletion_map = self.deletion_map
               /\ after.lamport_clock = self.lamport_clock
               /\ after.run_clock = self.run_clock
               /\ after.id = self.id
               /\ op \in kept
               /\ kept \ {op}
                    = (self.backlog.insertions \cup self.backlog.deletions)
                        \ {op}

\* a replica to which an insertion with a Lamport timestamp ahead of its
\* clock and a deletion come too early, neither being in its backlog yet
C14_Witness ==
    \E r \in Active : \E ins \in SentInsertions, del \in SentDeletions :
        /\ MustWait(replicas[r], ins)
        /\ MustWait(replicas[r], del)
        /\ ins \notin replicas[r].backlog.insertions
        /\ del \notin replicas[r].backlog.deletions
        /\ ins.lamport_ts >= replicas[r].lamport_clock

\* C15: for every replica state, every offset k <= len() and every bias,
\* resolve_anchor(create_anchor(k, bias)), with no edit in between, is Some(k).
C15_AnchorRoundTrip ==
    \A r \in Active :
        \A k \in 0..ReplicaLen(replicas[r]) : \A bias \in AnchorBias :
            ReplicaResolveAnchor(replicas[r],
                ReplicaCreateAnchor(replicas[r], k, bias)) = Some(k)

\* a replica with a tombstone and an offset inside the buffer where the
\* Left anchor and the Right anchor stick to characters of different
\* replicas
C15_Witness ==
    \E r \in Active : \E k \in 1..(ReplicaLen(replicas[r]) - 1) :
        /\ Chars(replicas[r].run_tree, FALSE) # {}
        /\ ReplicaCreateAnchor(replicas[r], k, "Left").inner.replica_id
             # ReplicaCreateAnchor(replicas[r], k, "Right").inner.replica_id
        /\ ReplicaResolveAnchor(replicas[r],
               ReplicaCreateAnchor(replicas[r], k, "Right")) = Some(k)

\* R = new(1, 5); the anchor of (0, Left) resolves to 0 after inserted(0, 5)
\* twice; the anchor of (15, Right) made then resolves to 25 after
\* inserted(15, 5) and inserted(20, 5)
SentinelScenario ==
    LET R == ReplicaNew(1, 5)
        start_of_document == ReplicaCreateAnchor(R, 0, "Left")
        R1 == ReplicaInserted(R, 0, 5).replica
        R2 == ReplicaInserted(R1, 0, 5).replica
        end_of_document == ReplicaCreateAnchor(R2, 15, "Right")
        R3 == ReplicaInserted(R2, 15, 5).replica
        R4 == ReplicaInserted(R3, 20, 5).replica
    IN  /\ ReplicaResolveAnchor(R2, start_of_document) = Some(0)
        /\ ReplicaResolveAnchor(R4, start_of_document) = Some(0)
        /\ ReplicaResolveAnchor(R4, end_of_document) = Some(25)

\* C16: an anchor made by create_anchor(0, Left) resolves to 0, and an anchor
\* made by create_anchor(len(), Right) resolves to the current len(), after
\* any later insertions and deletions, local or remote, at the replica that
\* made it and at every other replica.
C16_Sentinels ==
    /\ \A a \in anchors : \A r \in Active :
         /\ (a.at_offset = 0 /\ a.bias = "Left")
            => ReplicaResolveAnchor(replicas[r], a.anchor) = Some(0)
         /\ (a.bias = "Right" /\ a.char = <<0, 0>>)
            => ReplicaResolveAnchor(replicas[r], a.anchor)
                 = Some(ReplicaLen(replicas[r]))
    /\ SentinelScenario

\* an anchor made at the end of a buffer that was not empty, after which
\* the buffer has grown at the replica that made it and has another
\* length at another replica
C16_Witness ==
    \E a \in anchors : \E r \in Active :
        /\ a.bias = "Right"
        /\ a.char = <<0, 0>>
        /\ a.at_offset > 0
        /\ ReplicaLen(replicas[a.by]) > a.at_offset
        /\ r # a.by
        /\ ReplicaLen(replicas[r]) # ReplicaLen(replicas[a.by])
        /\ Chars(replicas[a.by].run_tree, FALSE) # {}

\* the number of characters of the buffer up to and including `char`
PlaceOf(self, char) ==
    CHOOSE i \in 1..ReplicaLen(self) : TextOfReplica(self)[i] = char

\* where an anchor stuck to the visible character `char` has to resolve:
\* just after it (Left) or just before it (Right)
EdgeOf(self, char, bias) ==
    IF bias = "Left" THEN PlaceOf(self, char) ELSE PlaceOf(self, char) - 1

\* The buffer is "ab": the anchors of (1, Left) and (1, Right), after
\* inserted(1, 1), resolve to 1 and to 2
BiasScenario ==
    LET R == ReplicaNew(1, 2)
        right_of_a == ReplicaCreateAnchor(R, 1, "Left")
        left_of_b == ReplicaCreateAnchor(R, 1, "Right")
        after == ReplicaInserted(R, 1, 1).replica
    IN  /\ ReplicaResolveAnchor(after, right_of_a) = Some(1)
        /\ ReplicaResolveAnchor(after, left_of_b) = Some(2)

\* C17: as long as the character an anchor sticks to is not deleted, a Left
\* anchor made at k > 0 resolves to the position just after the character
\* that was at k - 1 and a Right anchor made at k < len to the position just
\* before the character that was at k, after any insertions and deletions;
\* so an insertion of n characters exactly at k leaves the Left anchor at k
\* and moves the Right anchor to k + n.
C17_AnchorBias ==
    /\ \A a \in anchors : \A r \in Active :
         (a.char # <<0, 0>> /\ a.char \in Chars(replicas[r].run_tree, TRUE))
         => ReplicaResolveAnchor(replicas[r], a.anchor)
              = Some(EdgeOf(replicas[r], a.char, a.bias))
    /\ \A r \in Active :
         \A k \in 1..(ReplicaLen(replicas[r]) - 1), n \in 1..MaxInsLen :
            LET self == replicas[r]
                after == ReplicaInserted(self, k, n).replica
            IN  /\ ReplicaResolveAnchor(after,
                       ReplicaCreateAnchor(self, k, "Left")) = Some(k)
                /\ ReplicaResolveAnchor(after,
                       ReplicaCreateAnchor(self, k, "Right")) = Some(k + n)
    /\ BiasScenario

\* a Right anchor whose character is still visible at the replica that made
\* it and at another one, and has moved at both since the anchor was made,
\* to different offsets
C17_Witness ==
    \E a \in anchors : \E r \in Active :
        /\ a.bias = "Right"
        /\ a.char # <<0, 0>>
        /\ r # a.by
        /\ a.char \in Chars(replicas[r].run_tree, TRUE)
        /\ a.char \in Chars(replicas[a.by].run_tree, TRUE)
        /\ EdgeOf(replicas[a.by], a.char, a.bias) # a.at_offset
        /\ EdgeOf(replicas[r], a.char, a.bias)
             # EdgeOf(replicas[a.by], a.char, a.bias)

RECURSIVE AllTextUpTo(_, _)
\* every character of the first k leaves, tombstones too, in order
AllTextUpTo(tree, k) ==
    IF k = 0 THEN << >>
    ELSE AllTextUpTo(tree, k - 1)
         \o [i \in 1..(tree[k].hi - tree[k].lo) |->
               <<tree[k].rid, tree[k].lo + i - 1>>]

\* The closest position that is still visible, from the deleted character
\* `char`, in the direction of the bias: just after the nearest visible
\* character on its left (0 if there is none) for Left, just before the
\* nearest visible character on its right (len if there is none) for Right.
ClosestVisible(self, char, bias) ==
    LET all == AllTextUpTo(self.run_tree, Len(self.run_tree))
        at == CHOOSE i \in 1..Len(all) : all[i] = char
        shown == { i \in 1..Len(all) :
                     all[i] \in Chars(self.run_tree, TRUE) }
        left == { i \in shown : i < at }
        right == { i \in shown : i > at }
    IN  IF bias = "Left"
        THEN IF left = {} THEN 0
             ELSE PlaceOf(self, all[CHOOSE i \in left : \A j \in left : j <= i])
        ELSE IF right = {} THEN ReplicaLen(self)
             ELSE PlaceOf(self,
                     all[CHOOSE i \in right : \A j \in right : i <= j]) - 1

\* R = new(1, 11), a = create_anchor(9, Left), deleted(5..10):
\* resolve_anchor(a) is Some(5)
DeletedAnchorScenario ==
    LET R == ReplicaNew(1, 11)
        a == ReplicaCreateAnchor(R, 9, "Left")
        after == ReplicaDeleted(R, 5, 10).replica
    IN  ReplicaResolveAnchor(after, a) = Some(5)

\* C18: an anchor whose character has been deleted still resolves:
\* resolve_anchor returns Some(offset) with 0 <= offset <= len(), the offset
\* of the closest position still visible in the direction of the bias.  With
\* R = new(1, 11), a = create_anchor(9, Left) and deleted(5..10),
\* resolve_anchor(a) is Some(5).
C18_DeletedAnchor ==
    /\ \A a \in anchors : \A r \in Active :
         (a.char # <<0, 0>> /\ a.char \in Chars(replicas[r].run_tree, FALSE))
         => LET got == ReplicaResolveAnchor(replicas[r], a.anchor)
            IN  /\ got # None
                /\ 0 <= got.value
                /\ got.value <= ReplicaLen(replicas[r])
                /\ got.value = ClosestVisible(replicas[r], a.char, a.bias)
    /\ DeletedAnchorScenario

\* an anchor whose character is a tombstone, at some replica, between two
\* characters that are visible there
C18_Witness ==
    \E a \in anchors : \E r \in Active :
        /\ a.char # <<0, 0>>
        /\ a.char \in Chars(replicas[r].run_tree, FALSE)
        /\ 0 < ClosestVisible(replicas[r], a.char, a.bias)
        /\ ClosestVisible(replicas[r], a.char, a.bias) < ReplicaLen(replicas[r])

\* peer_1 = new(1, 10), peer_2 = peer_1.fork(2), peer_2.inserted(10, 10) and
\* peer_2.create_anchor(15, Left): peer_1 resolves the anchor to None before
\* it integrates the insertion and to Some(15) after
UnknownAnchorScenario ==
    LET peer_1 == ReplicaNew(1, 10)
        peer_2 == ReplicaFork(peer_1, 2)
        insertion_at_2 == ReplicaInserted(peer_2, 10, 10)
        anchor == ReplicaCreateAnchor(insertion_at_2.replica, 15, "Left")
        after == IntegrateInsertion(peer_1, insertion_at_2.ret).replica
    IN  /\ ReplicaResolveAnchor(peer_1, anchor) = None
        /\ ReplicaResolveAnchor(after, anchor) = Some(15)

\* the replica has not integrated the insertion that holds the character
\* the anchor sticks to
NotIntegrated(self, a) ==
    a.char # <<0, 0>> /\ a.char \notin AllChars(self.run_tree)

\* C19: resolve_anchor returns None exactly when the replica has not yet
\* integrated the insertion that contains the anchor, which is when
\* version_map[anchor.replica_id] < anchor.offset, and Some(offset) in every
\* other case; an anchor made at one replica resolves at another as soon as
\* that one has integrated the insertion.  Peer 2 inserts 10 characters at
\* offset 10 of a buffer of 10 and anchors at 15: peer 1 gets None before it
\* integrates the insertion and Some(15) after.
C19_NoneUntilIntegrated ==
    /\ \A a \in anchors : \A r \in Active :
         LET self == replicas[r]
             got == ReplicaResolveAnchor(self, a.anchor)
         IN  /\ (got = None) <=> NotIntegrated(self, a)
             /\ (got = None)
                  <=> (self.version_map[a.anchor.inner.replica_id]
                         < a.anchor.inner.offset)
             /\ got # None
                => (0 <= got.value /\ got.value <= ReplicaLen(self))
    /\ UnknownAnchorScenario

\* the positions in the log of the insertions replica r made, in the order
\* it made them
InsertionsOf(r) ==
    SelectSeq([i \in 1..Len(log) |-> i],
              LAMBDA i : log[i].kind = "insertion" /\ log[i].inserted_by = r)

\* the character timestamps of replica r that its own tree holds
OwnTimestamps(r) ==
    {c[2] : c \in {d \in AllChars(replicas[r].run_tree) : d[1] = r}}

\* new(1, 3), inserted(1, 2), inserted(0, 4), and a fork of the result that
\* inserts 3: the texts are (1, [3, 5)), (1, [5, 9)) and (2, [0, 3))
TilingScenario ==
    LET one == ReplicaInserted(ReplicaNew(1, 3), 1, 2)
        two == ReplicaInserted(one.replica, 0, 4)
        other == ReplicaInserted(ReplicaFork(two.replica, 2), 9, 3)
    IN  /\ <<one.ret.inserted_by, one.ret.start, one.ret.end>> = <<1, 3, 5>>
        /\ <<two.ret.inserted_by, two.ret.start, two.ret.end>> = <<1, 5, 9>>
        /\ two.replica.version_map[1] = 9
        /\ <<other.ret.inserted_by, other.ret.start, other.ret.end>>
             = <<2, 0, 3>>
        /\ other.replica.version_map[2] = 3
        /\ other.replica.version_map[1] = 9

\* C20: the character timestamps of a replica are contiguous: inserted(offset,
\* len) with len > 0 at replica R returns an insertion whose text is
\* (R, [s, s + len)) with s = version_map[R] before the call and sets
\* version_map[R] to s + len, so the texts of R's successive insertions
\* tile an interval with no gap and no overlap.
C20_ContiguousTimestamps ==
    /\ \A r \in Active :
         LET self == replicas[r]
         IN  \A at_offset \in 0..ReplicaLen(self) : \A len \in 1..MaxInsLen :
                LET done == ReplicaInserted(self, at_offset, len)
                    s == self.version_map[r]
                IN  /\ done.ret.inserted_by = r
                    /\ done.ret.start = s
                    /\ done.ret.end = s + len
                    /\ done.replica.version_map[r] = s + len
                    /\ \A o \in DOMAIN self.version_map :
                         o # r => done.replica.version_map[o]
                                    = self.version_map[o]
    /\ \A r \in Active :
         LET mine == InsertionsOf(r)
         IN  /\ \A n \in 1..Len(mine) :
                  /\ log[mine[n]].start < log[mine[n]].end
                  /\ n > 1 => log[mine[n]].start = log[mine[n - 1]].end
                  /\ (n = 1 /\ r # 1) => log[mine[n]].start = 0
             /\ mine # << >>
                  => replicas[r].version_map[r] = log[mine[Len(mine)]].end
             /\ OwnTimestamps(r) = 0..(replicas[r].version_map[r] - 1)
    /\ TilingScenario

\* a replica that started with text has made two insertions, and a fork
\* has made one
C20_Witness ==
    /\ \E r \in Active :
         /\ Len(InsertionsOf(r)) >= 2
         /\ log[InsertionsOf(r)[1]].start > 0
    /\ \E r \in Active : r # 1 /\ Len(InsertionsOf(r)) >= 1

\* the positions in the log of the deletions replica r made, in the order it
\* made them
DeletionsOf(r) ==
    SelectSeq([i \in 1..Len(log) |-> i],
              LAMBDA i : log[i].kind = "deletion" /\ log[i].deleted_by = r)

\* the replicas that wrote the characters at the offsets [start, end) of the
\* buffer
WritersOf(self, start, end) ==
    { TextOfReplica(self)[i][1] : i \in (start + 1)..end }

\* new(1, 4), a fork that inserts 2 at offset 2 and then deletes 1..3, 0..1
\* and 0..2: timestamps 1, 2, 3, and the first deletion, which removes a
\* character of each replica, carries the local versions 4 and 2
DeletionTsScenario ==
    LET fork == ReplicaFork(ReplicaNew(1, 4), 2)
        typed == ReplicaInserted(fork, 2, 2).replica
        one == ReplicaDeleted(typed, 1, 3)
        two == ReplicaDeleted(one.replica, 0, 1)
        three == ReplicaDeleted(two.replica, 0, 2)
    IN  /\ <<one.ret.deleted_by, one.ret.deletion_ts>> = <<2, 1>>
        /\ <<two.ret.deleted_by, two.ret.deletion_ts>> = <<2, 2>>
        /\ <<three.ret.deleted_by, three.ret.deletion_ts>> = <<2, 3>>
        /\ three.replica.deletion_map[2] = 3
        /\ three.replica.deletion_map[1] = 0
        /\ one.ret.version_map[1] = 4
        /\ one.ret.version_map[2] = 2

\* C21: the deletion timestamps of a replica count its deletions:
\* deleted(range) with a non-empty range at replica R adds exactly one to R's
\* own entry of the deletion map and returns a deletion with deleted_by = R
\* and deletion_ts equal to the new value, so the deletions of a fresh or
\* forked replica carry 1, 2, 3, ... in the order they were made; the version
\* map of the deletion maps each replica whose runs were touched to the
\* local version of that replica.
C21_DeletionTsCounts ==
    /\ \A r \in Active :
         LET self == replicas[r]
         IN  \A start \in 0..ReplicaLen(self) :
               \A end \in (start + 1)..ReplicaLen(self) :
                LET done == ReplicaDeleted(self, start, end)
                IN  /\ done.replica.deletion_map[r] = self.deletion_map[r] + 1
                    /\ \A o \in DOMAIN self.deletion_map :
                         o # r => done.replica.deletion_map[o]
                                    = self.deletion_map[o]
                    /\ done.ret.deleted_by = r
                    /\ done.ret.deletion_ts = done.replica.deletion_map[r]
                    /\ \A o \in WritersOf(self, start, end) :
                         done.ret.version_map[o] = self.version_map[o]
                    /\ done.replica.version_map = self.version_map
    /\ \A r \in Active :
         LET mine == DeletionsOf(r)
         IN  /\ \A n \in 1..Len(mine) : log[mine[n]].deletion_ts = n
             /\ replicas[r].deletion_map[r] = Len(mine)
    /\ DeletionTsScenario

\* a replica has made two deletions, and one of them removed a character
\* another replica wrote
C21_Witness ==
    \E r \in Active :
        /\ Len(DeletionsOf(r)) >= 2
        /\ \E n \in 1..Len(DeletionsOf(r)) : \E o \in Active :
             o # r /\ log[DeletionsOf(r)[n]].version_map[o] > 0

\* new(1, 3) and a fork: the no-op calls at either, and the no-op values
\* handed to the other, change nothing
NoOpScenario ==
    LET peer_1 == ReplicaNew(1, 3)
        peer_2 == ReplicaFork(peer_1, 2)
        typed == ReplicaInserted(peer_1, 3, 0)
        cut == ReplicaDeleted(peer_1, 2, 2)
    IN  /\ typed = [replica |-> peer_1, ret |-> InsertionNoOp]
        /\ cut = [replica |-> peer_1, ret |-> DeletionNoOp]
        /\ IntegrateInsertion(peer_2, typed.ret)
             = [replica |-> peer_2, ret |-> None]
        /\ IntegrateDeletion(peer_2, cut.ret)
             = [replica |-> peer_2, ret |-> << >>]

\* C22: no-ops are the identity: inserted(offset, 0) and deleted of an empty
\* range, with in-bounds arguments, return the explicit no-op value and
\* change nothing of the replica (no character count, run timestamp, Lamport
\* timestamp or deletion timestamp is used up); integrating a no-op insertion
\* returns None and integrating a no-op deletion returns an empty list, and
\* neither changes any state, the backlog included.
C22_NoOpsAreIdentity ==
    /\ \A r \in Active :
         LET self == replicas[r]
         IN  /\ \A at_offset \in 0..ReplicaLen(self) :
                  LET typed == ReplicaInserted(self, at_offset, 0)
                      cut == ReplicaDeleted(self, at_offset, at_offset)
                  IN  /\ typed.ret = InsertionNoOp
                      /\ typed.replica = self
                      /\ InsertionIsNoOp(typed.ret)
                      /\ cut.ret = DeletionNoOp
                      /\ cut.replica = self
                      /\ DeletionIsNoOp(cut.ret)
             /\ IntegrateInsertion(self, InsertionNoOp).ret = None
             /\ IntegrateInsertion(self, InsertionNoOp).replica = self
             /\ IntegrateDeletion(self, DeletionNoOp).ret = << >>
             /\ IntegrateDeletion(self, DeletionNoOp).replica = self
    /\ \A op \in Sent :
         IF op.kind = "insertion" THEN ~InsertionIsNoOp(op)
         ELSE ~DeletionIsNoOp(op)
    /\ NoOpScenario

\* a replica that holds text and a tombstone, has made a deletion and keeps
\* an operation in its backlog
C22_Witness ==
    \E r \in Active :
        LET self == replicas[r]
        IN  /\ ReplicaLen(self) > 0
            /\ Chars(self.run_tree, FALSE) # {}
            /\ self.deletion_map[r] > 0
            /\ self.backlog.insertions \cup self.backlog.deletions # {}

\* ------------------------------------------------------------- encoding: integers
\* a decoder's results: the value with the position of the first byte it
\* did not read, or a failure
Decoded(value, at) == [ok |-> TRUE, value |-> value, at |-> at]

Failed(error) == [ok |-> FALSE, error |-> error]

\* the `?` of a decoder: the failure as it is, or what follows with the
\* result
Try(result, Then(_)) == IF result.ok THEN Then(result) ELSE result

\* the `?` after a map_err: the failure becomes the caller's error
TryAs(result, error, Then(_)) ==
    IF result.ok THEN Then(result) ELSE Failed(error)

RECURSIVE EncodeInt(_)
\* the variable-length encoding of an integer: seven bits a byte, lowest
\* first, the high bit set on every byte but the last
EncodeInt(n) ==
    IF n < 128 THEN << n >>
    ELSE << 128 + (n % 128) >> \o EncodeInt(n \div 128)

RECURSIVE DecodeInt(_, _)
\* reads one integer from buf[at..]
DecodeInt(buf, at) ==
    IF at > Len(buf) THEN Failed("Int")
    ELSE IF buf[at] < 128 THEN Decoded(buf[at], at + 1)
    ELSE Try(DecodeInt(buf, at + 1),
             LAMBDA high :
               Decoded((buf[at] - 128) + 128 * high.value, high.at))

RECURSIVE EncodeInts(_)
EncodeInts(ints) ==
    IF ints = << >> THEN << >>
    ELSE EncodeInt(Head(ints)) \o EncodeInts(Tail(ints))

RECURSIVE DecodeInts(_, _, _)
\* reads n integers in a row
DecodeInts(buf, at, n) ==
    IF n = 0 THEN Decoded(<< >>, at)
    ELSE Try(DecodeInt(buf, at),
             LAMBDA first :
               Try(DecodeInts(buf, first.at, n - 1),
                   LAMBDA others :
                     Decoded(<< first.value >> \o others.value, others.at)))

\* a boolean is one byte, 0 or 1
EncodeBool(b) == IF b THEN << 1 >> ELSE << 0 >>

DecodeBool(buf, at) ==
    IF at > Len(buf) THEN Failed("Bool")
    ELSE IF buf[at] \notin {0, 1} THEN Failed("Bool")
    ELSE Decoded(buf[at] = 1, at + 1)

\* ------------------------------------------------------------- encoding: run tree
EncodeRun(run) ==
    EncodeInts(<< run.rid, run.lo, run.hi, run.run_ts, run.lamport_ts >>)
    \o EncodeBool(run.visible)

DecodeRun(buf, at) ==
    TryAs(DecodeInts(buf, at, 5), "RunTree",
          LAMBDA ints :
            TryAs(DecodeBool(buf, ints.at), "RunTree",
                  LAMBDA visible :
                    IF ints.value[2] > ints.value[3] THEN Failed("RunTree")
                    ELSE Decoded([rid |-> ints.value[1],
                                  lo |-> ints.value[2],
                                  hi |-> ints.value[3],
                                  run_ts |-> ints.value[4],
                                  lamport_ts |-> ints.value[5],
                                  visible |-> visible.value],
                                 visible.at)))

RECURSIVE EncodeRuns(_)
EncodeRuns(runs) ==
    IF runs = << >> THEN << >>
    ELSE EncodeRun(Head(runs)) \o EncodeRuns(Tail(runs))

RECURSIVE DecodeRuns(_, _, _)
DecodeRuns(buf, at, n) ==
    IF n = 0 THEN Decoded(<< >>, at)
    ELSE Try(DecodeRun(buf, at),
             LAMBDA first :
               Try(DecodeRuns(buf, first.at, n - 1),
                   LAMBDA others :
                     Decoded(<< first.value >> \o others.value, others.at)))

\* RunTree::encode: the number of runs, then the runs in document order
EncodeRunTree(tree) == EncodeInt(Len(tree)) \o EncodeRuns(tree)

\* RunTree::decode
DecodeRunTree(buf, at) ==
    TryAs(DecodeInt(buf, at), "RunTree",
          LAMBDA n :
            IF n.value = 0 THEN Failed("RunTree")
            ELSE DecodeRuns(buf, n.at, n.value))

\* ------------------------------------------------------------- encoding: maps
RECURSIVE LowestFirst(_)
\* the elements of a set of integers, lowest first
LowestFirst(set) ==
    IF set = {} THEN << >>
    ELSE LET low == CHOOSE x \in set : \A y \in set : x <= y
         IN  << low >> \o LowestFirst(set \ {low})

RECURSIVE EncodeEntries(_, _)
EncodeEntries(map, ids) ==
    IF ids = << >> THEN << >>
    ELSE EncodeInts(<< Head(ids), map[Head(ids)] >>)
         \o EncodeEntries(map, Tail(ids))

\* VersionMap::encode, DeletionMap::encode: the id and the value of this
\* replica, then the number of other entries and the entries by ascending
\* id
EncodeMap(this, map) ==
    LET others == LowestFirst({ i \in DOMAIN map : i # this /\ map[i] # 0 })
    IN  EncodeInts(<< this, map[this], Len(others) >>)
        \o EncodeEntries(map, others)

RECURSIVE DecodeEntries(_, _, _, _)
DecodeEntries(buf, at, n, map) ==
    IF n = 0 THEN Decoded(map, at)
    ELSE TryAs(DecodeInts(buf, at, 2), "Map",
               LAMBDA entry :
                 IF entry.value[1] \notin DOMAIN map THEN Failed("Map")
                 ELSE DecodeEntries(
                        buf, entry.at, n - 1,
                        [map EXCEPT ![entry.value[1]] = entry.value[2]]))

\* VersionMap::decode, DeletionMap::decode
DecodeMap(buf, at) ==
    TryAs(DecodeInts(buf, at, 3), "Map",
          LAMBDA head :
            IF head.value[1] \notin IdDomain THEN Failed("Map")
            ELSE DecodeEntries(buf, head.at, head.value[3],
                               NewMap(head.value[1], head.value[2])))

\* ------------------------------------------------------------- encoding: backlog
EncodeAnchor(anchor) ==
    EncodeInts(<< anchor.replica_id, anchor.run_ts, anchor.offset >>)

EncodeInsertion(insertion) ==
    EncodeAnchor(insertion.anchor)
    \o EncodeInts(<< insertion.inserted_by, insertion.start, insertion.end,
                     insertion.lamport_ts, insertion.run_ts >>)

DecodeInsertion(buf, at) ==
    TryAs(DecodeInts(buf, at, 8), "Backlog",
          LAMBDA ints :
            Decoded(Insertion(InnerAnchor(ints.value[1], ints.value[3],
                                          ints.value[2]),
                              ints.value[4], ints.value[5], ints.value[6],
                              ints.value[7], ints.value[8]),
                    ints.at))

EncodeDeletion(deletion) ==
    EncodeAnchor(deletion.start) \o EncodeAnchor(deletion.end)
    \o EncodeMap(deletion.deleted_by, deletion.version_map)
    \o EncodeInt(deletion.deletion_ts)

DecodeDeletion(buf, at) ==
    TryAs(DecodeInts(buf, at, 6), "Backlog",
          LAMBDA ints :
            TryAs(DecodeMap(buf, ints.at), "Backlog",
                  LAMBDA version_map :
                    TryAs(DecodeInt(buf, version_map.at), "Backlog",
                          LAMBDA deletion_ts :
                            Decoded(Deletion(
                                      InnerAnchor(ints.value[1], ints.value[3],
                                                  ints.value[2]),
                                      InnerAnchor(ints.value[4], ints.value[6],
                                                  ints.value[5]),
                                      version_map.value,
                                      DecodeInt(buf, ints.at).value,
                                      deletion_ts.value),
                                    deletion_ts.at))))

\* the order the backlog keeps its operations in: by replica, then by start
\* (insertions) or by deletion timestamp (deletions)
KeptBefore(op, other) ==
    IF op.kind = "insertion"
    THEN \/ op.inserted_by < other.inserted_by
         \/ op.inserted_by = other.inserted_by /\ op.start <= other.start
    ELSE \/ op.deleted_by < other.deleted_by
         \/ /\ op.deleted_by = other.deleted_by
            /\ op.deletion_ts <= other.deletion_ts

RECURSIVE EncodeKept(_)
EncodeKept(ops) ==
    IF ops = {} THEN << >>
    ELSE LET op == CHOOSE o \in ops : \A other \in ops : KeptBefore(o, other)
         IN  (IF op.kind = "insertion" THEN EncodeInsertion(op)
              ELSE EncodeDeletion(op))
             \o EncodeKept(ops \ {op})

RECURSIVE DecodeKept(_, _, _, _)
DecodeKept(buf, at, n, kind) ==
    IF n = 0 THEN Decoded({}, at)
    ELSE Try(IF kind = "insertion" THEN DecodeInsertion(buf, at)
             ELSE DecodeDeletion(buf, at),
             LAMBDA first :
               Try(DecodeKept(buf, first.at, n - 1, kind),
                   LAMBDA others :
                     Decoded({first.value} \cup others.value, others.at)))

\* Backlog::encode: the insertions, then the deletions, each with its count
EncodeBacklog(backlog) ==
    EncodeInt(Cardinality(backlog.insertions)) \o EncodeKept(backlog.insertions)
    \o EncodeInt(Cardinality(backlog.deletions))
    \o EncodeKept(backlog.deletions)

\* Backlog::decode
DecodeBacklog(buf, at) ==
    TryAs(DecodeInt(buf, at), "Backlog",
      LAMBDA n :
        TryAs(DecodeKept(buf, n.at, n.value, "insertion"), "Backlog",
          LAMBDA insertions :
            TryAs(DecodeInt(buf, insertions.at), "Backlog",
              LAMBDA m :
                TryAs(DecodeKept(buf, m.at, m.value, "deletion"), "Backlog",
                  LAMBDA deletions :
                    Decoded([insertions |-> insertions.value,
                             deletions |-> deletions.value],
                            deletions.at)))))

\* ------------------------------------------------------------- encoding: replica
\* impl Encode for Replica that writes the deletion map before the version
\* map
EncodeReplicaMapsSwapped(self) ==
    EncodeRunTree(self.run_tree)
    \o EncodeInt(self.lamport_clock)
    \o EncodeMap(self.id, self.deletion_map)
    \o EncodeMap(self.id, self.version_map)
    \o EncodeBacklog(self.backlog)

\* impl Encode for Replica
EncodeReplica(self) ==
    EncodeRunTree(self.run_tree)
    \o EncodeInt(self.lamport_clock)
    \o EncodeMap(self.id, self.version_map)
    \o EncodeMap(self.id, self.deletion_map)
    \o EncodeBacklog(self.backlog)

\* impl Decode for Replica: the five parts, in the order they were written
DecodeReplica(buf, at) ==
    Try(DecodeRunTree(buf, at),
      LAMBDA run_tree :
        Try(DecodeInt(buf, run_tree.at),
          LAMBDA lamport_clock :
            Try(DecodeMap(buf, lamport_clock.at),
              LAMBDA version_map :
                Try(DecodeMap(buf, version_map.at),
                  LAMBDA deletion_map :
                    Try(DecodeBacklog(buf, deletion_map.at),
                      LAMBDA backlog :
                        Decoded([run_tree |-> run_tree.value,
                                 lamport_clock |-> lamport_clock.value,
                                 version_map |-> version_map.value,
                                 deletion_map |-> deletion_map.value,
                                 backlog |-> backlog.value],
                                backlog.at))))))

\* ------------------------------------------------------------- encoded replica
\* the version of the encoding this build writes
ProtocolVersion == 1

\* size_of::<ChecksumArray>()
CHECKSUM_LEN == 32

RECURSIVE SumBytes(_, _, _)
\* the sum of bytes[from..to], by halves
SumBytes(bytes, from, to) ==
    IF from > to THEN 0
    ELSE IF from = to THEN bytes[from]
    ELSE LET mid == (from + to) \div 2
         IN  SumBytes(bytes, from, mid) + SumBytes(bytes, mid + 1, to)

\* checksum_array: the digest of the bytes, 32 bytes that depend on all of
\* them (a sum instead of SHA-256)
ChecksumArray(bytes) ==
    LET digest(sum) ==
          [i \in 1..CHECKSUM_LEN |-> (sum + i * (Len(bytes) + 1)) % 256]
    IN  digest(SumBytes(bytes, 1, Len(bytes)))

\* EncodedReplica::new
EncodedReplica(protocol_version, checksum, bytes) ==
    [protocol_version |-> protocol_version, checksum |-> checksum,
     bytes |-> bytes]

\* EncodedReplica::from_replica, which Replica::encode returns
ReplicaEncode(self) ==
    LET from_replica(bytes) ==
          EncodedReplica(ProtocolVersion, ChecksumArray(bytes), bytes)
    IN  from_replica(EncodeReplica(self))

\* EncodedReplica::to_replica: the version and the checksum are verified
\* before the payload is read
ToReplica(encoded) ==
    IF encoded.protocol_version # ProtocolVersion
    THEN Failed("DifferentProtocol")
    ELSE IF ChecksumArray(encoded.bytes) # encoded.checksum
    THEN Failed("ChecksumFailed")
    ELSE TryAs(DecodeReplica(encoded.bytes, 1), "InvalidData",
               LAMBDA parts : parts)

\* impl Encode for EncodedReplica
EncodeEncodedReplica(self) ==
    EncodeInt(self.protocol_version)
    \o self.checksum
    \o EncodeInt(Len(self.bytes))
    \o self.bytes

\* the bytes of buf from position at on
From(buf, at) == SubSeq(buf, at, Len(buf))

\* impl Decode for EncodedReplica that fails when bytes are left after the
\* payload
DecodeEncodedReplicaAllOrNothing(buf) ==
    TryAs(DecodeInt(buf, 1), "Int",
      LAMBDA protocol_version :
        IF Len(buf) - protocol_version.at + 1 < CHECKSUM_LEN
        THEN Failed("Checksum")
        ELSE
        TryAs(DecodeInt(buf, protocol_version.at + CHECKSUM_LEN), "Int",
          LAMBDA num_bytes :
            IF Len(buf) - num_bytes.at + 1 # num_bytes.value
            THEN Failed("Bytes")
            ELSE [ok |-> TRUE,
                  value |-> EncodedReplica(
                              protocol_version.value,
                              SubSeq(buf, protocol_version.at,
                                     protocol_version.at + CHECKSUM_LEN - 1),
                              SubSeq(buf, num_bytes.at,
                                     num_bytes.at + num_bytes.value - 1)),
                  rest |-> << >>]))

\* impl Decode for EncodedReplica: the value and the bytes that were not
\* read, or the error
DecodeEncodedReplica(buf) ==
    TryAs(DecodeInt(buf, 1), "Int",
      LAMBDA protocol_version :
        IF Len(buf) - protocol_version.at + 1 < CHECKSUM_LEN
        THEN Failed("Checksum")
        ELSE
        TryAs(DecodeInt(buf, protocol_version.at + CHECKSUM_LEN), "Int",
          LAMBDA num_bytes :
            IF Len(buf) - num_bytes.at + 1 < num_bytes.value
            THEN Failed("Bytes")
            ELSE [ok |-> TRUE,
                  value |-> EncodedReplica(
                              protocol_version.value,
                              SubSeq(buf, protocol_version.at,
                                     protocol_version.at + CHECKSUM_LEN - 1),
                              SubSeq(buf, num_bytes.at,
                                     num_bytes.at + num_bytes.value - 1)),
                  rest |-> From(buf, num_bytes.at + num_bytes.value)]))

\* ------------------------------------------------------------- calls
\* What a call of the public interface ends in: a panic, with the replica
\* as it is after the unwinding, or a return.
Panicked(message, self) == [panic |-> message, replica |-> self]

Returned(done) == [panic |-> "", replica |-> done.replica, ret |-> done.ret]

\* Replica::new with its check
New(id, len) ==
    IF id = 0 THEN [panic |-> "replica_id_is_zero"]
    ELSE [panic |-> "", ret |-> ReplicaNew(id, len)]

\* Replica::decode
ReplicaDecode(id, encoded) ==
    IF id = 0 THEN [panic |-> "replica_id_is_zero"]
    ELSE LET parts == ToReplica(encoded)
         IN  IF ~parts.ok THEN [panic |-> "", ret |-> parts]
             ELSE [panic |-> "",
                   ret |-> [ok |-> TRUE,
                            value |->
                              [id |-> id,
                               run_tree |-> parts.value.run_tree,
                               run_clock |-> 0,
                               lamport_clock |-> parts.value.lamport_clock,
                               version_map |->
                                 ForkMap(parts.value.version_map, id, 0),
                               deletion_map |->
                                 ForkMap(parts.value.deletion_map, id, 0),
                               backlog |-> parts.value.backlog]]]

\* Replica::fork with its checks
ForkCall(self, new_id) ==
    IF new_id = 0 THEN Panicked("replica_id_is_zero", self)
    ELSE IF new_id = self.id THEN Panicked("replica_id_equal_to_forked", self)
    ELSE Returned([replica |-> self, ret |-> ReplicaFork(self, new_id)])

\* Replica::create_anchor with its check
CreateAnchorCall(self, at_offset, with_bias) ==
    IF at_offset > ReplicaLen(self)
    THEN Panicked("offset_out_of_bounds", self)
    ELSE Returned([replica |-> self,
                   ret |-> ReplicaCreateAnchor(self, at_offset, with_bias)])

\* Replica::inserted that looks at the length before it looks at the offset
InsertedCallLenFirst(self, at_offset, len) ==
    IF len = 0 THEN Returned([replica |-> self, ret |-> InsertionNoOp])
    ELSE IF at_offset > ReplicaLen(self)
    THEN Panicked("offset_out_of_bounds", self)
    ELSE Returned(ReplicaInserted(self, at_offset, len))

\* Replica::inserted with its check
InsertedCall(self, at_offset, len) ==
    IF at_offset > ReplicaLen(self)
    THEN Panicked("offset_out_of_bounds", self)
    ELSE Returned(ReplicaInserted(self, at_offset, len))

\* Replica::deleted with its checks
DeletedCall(self, start, end) ==
    IF end > ReplicaLen(self) THEN Panicked("offset_out_of_bounds", self)
    ELSE IF start > end THEN Panicked("start_greater_than_end", self)
    ELSE Returned(ReplicaDeleted(self, start, end))

\* C23: the fatal user errors: new(0, _), decode(0, _), fork(0),
\* fork(self.id), create_anchor(o, _) and inserted(o, _) with o > len() (also
\* when the inserted length is 0), and deleted(range) with end > len() or
\* start > end each end in a panic; the check is made before any mutation, so
\* the replica is the same as before the call.  Every other call returns.
C23_FatalUserErrors ==
    /\ \A len \in 0..MaxInitLen : \A id \in IdDomain :
         (New(id, len).panic # "") <=> (id = 0)
    /\ \A r \in Active :
         LET self == replicas[r]
             len == ReplicaLen(self)
         IN  /\ ReplicaDecode(0, ReplicaEncode(self)).panic
                  = "replica_id_is_zero"
             /\ ReplicaDecode(r, EncodedReplica(0, << >>, << >>)).panic = ""
             /\ \A new_id \in IdDomain :
                  LET call == ForkCall(self, new_id)
                  IN  /\ (call.panic # "") <=> (new_id = 0 \/ new_id = r)
                      /\ call.replica = self
             /\ \A at_offset \in Offsets :
                  /\ \A with_bias \in AnchorBias :
                       LET call == CreateAnchorCall(self, at_offset, with_bias)
                       IN  /\ (call.panic # "") <=> (at_offset > len)
                           /\ call.replica = self
                  /\ \A n \in 0..MaxInsLen :
                       LET call == InsertedCall(self, at_offset, n)
                       IN  /\ (call.panic # "") <=> (at_offset > len)
                           /\ call.panic # "" => call.replica = self
             /\ \A start, end \in Offsets :
                  LET call == DeletedCall(self, start, end)
                  IN  /\ (call.panic # "") <=> (end > len \/ start > end)
                      /\ call.panic # "" => call.replica = self

\* a replica that holds text, a tombstone and a backlogged operation, at
\* which an offset past the end and a reversed range make inserted, with
\* length 0 too, and deleted panic
C23_Witness ==
    \E r \in Active :
        LET self == replicas[r]
            len == ReplicaLen(self)
        IN  /\ len >= 2
            /\ Chars(self.run_tree, FALSE) # {}
            /\ self.backlog.insertions \cup self.backlog.deletions # {}
            /\ InsertedCall(self, len + 1, 0).panic = "offset_out_of_bounds"
            /\ InsertedCall(self, len + 1, 1).panic = "offset_out_of_bounds"
            /\ DeletedCall(self, 0, len + 1).panic = "offset_out_of_bounds"
            /\ DeletedCall(self, 2, 1).panic = "start_greater_than_end"

\* what fork(new_id) of `self` has to look like
IsForkOf(copy, self, new_id) ==
    /\ copy.id = new_id
    /\ copy.run_tree = self.run_tree
    /\ copy.backlog = self.backlog
    /\ copy.lamport_clock = self.lamport_clock
    /\ \A i \in IdDomain :
         /\ copy.version_map[i] = IF i = new_id THEN 0 ELSE self.version_map[i]
         /\ copy.deletion_map[i]
              = IF i = new_id THEN 0 ELSE self.deletion_map[i]

\* every replica can be forked under every other id, and the copy is as
\* described
ForksAreCopies ==
    \A r \in Active : \A new_id \in ReplicaIds \ {r} :
        LET call == ForkCall(replicas[r], new_id)
        IN  /\ call.panic = ""
            /\ IsForkOf(call.ret, replicas[r], new_id)
            /\ call.replica = replicas[r]

\* a step changes one replica at most, and a replica that appears is the
\* fork of one that the step leaves as it was
OneReplicaAStep ==
    /\ Cardinality({ r \in ReplicaIds : replicas'[r] # replicas[r] }) <= 1
    /\ \A new_id \in ReplicaIds :
         (replicas[new_id] = Absent /\ replicas'[new_id] # Absent)
           => \E r \in Active :
                /\ IsForkOf(replicas'[new_id], replicas[r], new_id)
                /\ replicas'[r] = replicas[r]

\* C24: fork(new_id) returns a replica with id new_id whose run tree, backlog
\* and Lamport clock equal the original's and whose version map and deletion
\* map equal the original's except that the entries of new_id are 0; the two
\* share nothing: afterwards no operation applied to one of them changes the
\* state of the other.
C24_ForkSharesNothing == [](ForksAreCopies) /\ [][OneReplicaAStep]_vars

\* the original and its fork have both made an operation since the fork and
\* have received one, and the original keeps an operation in its backlog
C24_Witness ==
    /\ replicas[2] # Absent
    /\ \E i, j \in 1..Len(log) :
         /\ log[i].kind = "insertion" /\ log[i].inserted_by = 1
         /\ log[j].kind = "insertion" /\ log[j].inserted_by = 2
    /\ replicas[1].run_tree # replicas[2].run_tree
    /\ replicas[1].backlog.insertions # {}
    /\ replicas[2].version_map[1] > 0

\* ------------------------------------------------------------- joining by decode
\* Replica::eq_decoded
EqDecoded(self, other) ==
    self.run_tree = other.run_tree /\ self.backlog = other.backlog

\* new_id joins with Replica::decode(new_id, &r.encode())
Decode(r, new_id) ==
    /\ r \in Active
    /\ new_id \notin Active
    /\ LET call == ReplicaDecode(new_id, ReplicaEncode(replicas[r]))
       IN  /\ call.panic = ""
           /\ call.ret.ok
           /\ replicas' = [replicas EXCEPT ![new_id] = call.ret.value]
    /\ UNCHANGED <<log, history, anchors, gt, called>>

\* Two writers and the Observer, every operation delivered at most once; the
\* second writer joins by fork or by decoding the encoded first one.
NextDecode ==
    \/ \E r \in ReplicaIds, new_id \in Writers : Fork(r, new_id)
    \/ \E r \in ReplicaIds, new_id \in Writers : Decode(r, new_id)
    \/ \E r \in Writers, at_offset \in Offsets, len \in 0..MaxInsLen :
         Len(log) < ObservedOps /\ Inserted(r, at_offset, len)
    \/ \E r \in Writers, start, end \in Offsets :
         Len(log) < ObservedOps /\ Deleted(r, start, end)
    \/ \E r \in ReplicaIds, insertion \in Sent : DeliverInsertion(r, insertion)
    \/ \E r \in ReplicaIds, deletion \in Sent : DeliverDeletion(r, deletion)
    \/ \E r \in ReplicaIds : DoBackloggedInsertionsNext(r)
    \/ \E r \in ReplicaIds : DoBackloggedDeletionsNext(r)

SpecDecode == InitOnce /\ [][NextDecode]_vars

\* R1 = new(1, 5), R1.inserted(5, 3), R2 = decode(2, R1.encode()):
\* R2.len() == 8 and R2.eq_decoded(&R1.fork(2))
RoundTripScenario ==
    LET R1 == ReplicaInserted(ReplicaNew(1, 5), 5, 3).replica
        R2 == ReplicaDecode(2, ReplicaEncode(R1))
    IN  /\ R2.panic = ""
        /\ R2.ret.ok
        /\ ReplicaLen(R2.ret.value) = 8
        /\ EqDecoded(R2.ret.value, ReplicaFork(R1, 2))

ReadyNow(self) ==
    { ins \in Sent : /\ ins.kind = "insertion"
                     /\ ~HasMergedInsertion(self, ins)
                     /\ CanMergeInsertion(self, ins) }

\* the Lamport clock of `self` after each way of integrating a ready
\* insertion is `clock`
ClockAfterIs(self, ins, clock) ==
    /\ IntegrateInsertion(self, ins).replica.lamport_clock = clock
    /\ ins \in self.backlog.insertions
         => BackloggedInsertionsNext(self, ins).replica.lamport_clock = clock

\* C26 as stated: after a replica integrates a ready remote insertion,
\* directly or from the backlog, its Lamport clock equals max(its Lamport
\* clock before, insertion.lamport_ts) + 1, so the clock advances on the
\* receipt of every remote insertion, also when the local clock was already
\* ahead of the remote timestamp.
C26_ClockMaxPlusOne ==
    \A r \in Active : \A ins \in ReadyNow(replicas[r]) :
        LET self == replicas[r]
        IN  /\ ClockAfterIs(self, ins,
                            Max(self.lamport_clock, ins.lamport_ts) + 1)
            /\ IntegrateInsertion(self, ins).replica.lamport_clock
                 > self.lamport_clock

\* C26: after a replica integrates a ready remote insertion, directly or
\* from the backlog, its Lamport clock equals max(its Lamport clock before,
\* insertion.lamport_ts + 1): it moves to lamport_ts + 1 when the remote
\* timestamp is at or past the clock, and stays as it was when the local
\* clock was already ahead.  It is past the remote timestamp either way.
C26_ClockMerge ==
    \A r \in Active : \A ins \in ReadyNow(replicas[r]) :
        LET self == replicas[r]
            after == IntegrateInsertion(self, ins).replica.lamport_clock
        IN  /\ ClockAfterIs(self, ins,
                            Max(self.lamport_clock, ins.lamport_ts + 1))
            /\ after > ins.lamport_ts
            /\ (ins.lamport_ts < self.lamport_clock)
                 => after = self.lamport_clock
            /\ (ins.lamport_ts >= self.lamport_clock)
                 => after = ins.lamport_ts + 1

\* a replica can integrate an insertion whose timestamp its clock is ahead
\* of, and one, kept in the backlog, whose timestamp is at or past its
\* clock
C26_Witness ==
    /\ \E r \in Active : \E ins \in ReadyNow(replicas[r]) :
         ins.lamport_ts < replicas[r].lamport_clock
    /\ \E r \in Active : \E ins \in ReadyNow(replicas[r]) :
         /\ ins.lamport_ts >= replicas[r].lamport_clock
         /\ ins \in replicas[r].backlog.insertions

\* R = new(id, 5); end = R.create_anchor(5, Right); R.inserted(5, 5);
\* R.inserted(10, 5): what R.resolve_anchor(end) returns
DocumentEndScenario(id) ==
    LET R == New(id, 5).ret
        end == CreateAnchorCall(R, 5, "Right").ret
        R1 == InsertedCall(R, 5, 5).replica
        R2 == InsertedCall(R1, 10, 5).replica
    IN  [len |-> ReplicaLen(R2), resolved |-> ReplicaResolveAnchor(R2, end)]

\* C27 as stated: with R = new(1, 5), end = R.create_anchor(5, Right), then
\* R.inserted(5, 5) and R.inserted(10, 5), R.resolve_anchor(end) equals 25.
C27_DocumentEndIs25 ==
    \A id \in Active : DocumentEndScenario(id).resolved = Some(25)

\* the insertions a replica made after one of its anchors, an anchor to the
\* end of the document, all went to the end of the buffer
GrewAtEnd(a) ==
    /\ IsEndOfDocument(a.anchor)
    /\ \A i \in 1..Len(log) : /\ log[i].kind = "insertion"
                               /\ log[i].inserted_by = a.by
    /\ ReplicaLen(replicas[a.by])
         = a.at_offset + RangesLen([i \in 1..Len(log) |->
                                      << log[i].start, log[i].end >>])

\* C27: with R = new(1, 5), end = R.create_anchor(5, Right), then
\* R.inserted(5, 5) and R.inserted(10, 5), R.resolve_anchor(end) equals 15,
\* the length of the buffer after the two insertions; an anchor made with
\* (len(), Right) resolves to the current length after insertions at the end.
C27_DocumentEnd ==
    /\ \A id \in Active :
         DocumentEndScenario(id) = [len |-> 15, resolved |-> Some(15)]
    /\ \A a \in anchors :
         GrewAtEnd(a)
           => ReplicaResolveAnchor(replicas[a.by], a.anchor)
                = Some(ReplicaLen(replicas[a.by]))

\* a replica made an anchor to the end of its buffer and then two insertions
\* at the end
C27_Witness ==
    \E a \in anchors :
        /\ GrewAtEnd(a)
        /\ Len(log) = 2
        /\ a.at_offset > 0

\* the bytes that may follow an envelope
ExtraBytes == { << 0 >>, << 255 >>, << 1, 2, 3 >> }

\* the error the decoder has to give for the first `cut` bytes of the
\* envelope of `encoded`, cut < the length of the envelope
ErrorAtCut(encoded, cut) ==
    LET version_len == Len(EncodeInt(encoded.protocol_version))
        length_len == Len(EncodeInt(Len(encoded.bytes)))
    IN  IF cut < version_len THEN "Int"
        ELSE IF cut < version_len + CHECKSUM_LEN THEN "Checksum"
        ELSE IF cut < version_len + CHECKSUM_LEN + length_len THEN "Int"
        ELSE "Bytes"

\* the envelope of `encoded` decodes to it, left to right, and every proper
\* prefix of it fails with the error of the part that was cut
ReadLeftToRight(encoded) ==
    LET buf == EncodeEncodedReplica(encoded)
        whole == DecodeEncodedReplica(buf)
    IN  /\ whole.ok
        /\ whole.value = encoded
        /\ whole.rest = << >>
        /\ \A cut \in 0..(Len(buf) - 1) :
             LET part == DecodeEncodedReplica(SubSeq(buf, 1, cut))
             IN  ~part.ok /\ part.error = ErrorAtCut(encoded, cut)

\* an envelope whose payload takes two bytes to count
LongEnvelope ==
    LET bytes == [i \in 1..130 |-> (7 * i) % 256]
    IN  EncodedReplica(300, ChecksumArray(bytes), bytes)

\* C28 as stated: decoding the envelope of an EncodedReplica reads the
\* protocol version, the 32 bytes of the checksum, the length of the payload
\* and the payload strictly left to right; it fails when fewer than 32 bytes
\* remain for the checksum or fewer bytes remain than the advertised length,
\* and it rejects an input that carries extra bytes after the payload.
C28_RejectsTrailingBytes ==
    /\ ReadLeftToRight(LongEnvelope)
    /\ \A r \in Active :
        LET encoded == ReplicaEncode(replicas[r])
        IN  /\ ReadLeftToRight(encoded)
            /\ \A extra \in ExtraBytes :
                 ~DecodeEncodedReplica(EncodeEncodedReplica(encoded)
                                       \o extra).ok

\* C28: decoding the envelope of an EncodedReplica reads the protocol
\* version, the 32 bytes of the checksum, the length of the payload and the
\* payload strictly left to right; it fails when fewer than 32 bytes remain
\* for the checksum or fewer bytes remain than the advertised length.  Bytes
\* after the payload are not rejected: the decoder succeeds with the same
\* value and returns them as the rest it did not read.
C28_ReturnsTrailingBytes ==
    /\ ReadLeftToRight(LongEnvelope)
    /\ \A r \in Active :
        LET encoded == ReplicaEncode(replicas[r])
        IN  /\ ReadLeftToRight(encoded)
            /\ \A extra \in ExtraBytes :
                 LET longer == DecodeEncodedReplica(
                                 EncodeEncodedReplica(encoded) \o extra)
                 IN  /\ longer.ok
                     /\ longer.value = encoded
                     /\ longer.rest = extra

\* the envelope of a replica with a tombstone and a backlogged operation is
\* decoded, also with bytes after it and cut inside the payload
C28_Witness ==
    \E r \in Active :
        LET S == replicas[r]
            buf == EncodeEncodedReplica(ReplicaEncode(S))
        IN  /\ Chars(S.run_tree, FALSE) # {}
            /\ S.backlog.insertions \cup S.backlog.deletions # {}
            /\ DecodeEncodedReplica(buf \o << 255 >>).rest = << 255 >>
            /\ ~DecodeEncodedReplica(SubSeq(buf, 1, Len(buf) - 1)).ok


\* ------------------------------------------------------------------ Gtree
\* gtree.rs: the arena tree under the run tree. A Gtree is a record of its
\* two arenas (inodes and lnodes, a sequence each: handles are positions
\* and never move), root_idx and last_insertion_cache. Child positions
\* are counted from 0 as in the code.

\* Gtree<ARITY, L>; insert_two_in_inode needs ARITY / 2 >= 2
ARITY == 4

\* InodeIdx::dangling()
Dangling == 0

\* Inode::max_children()
MaxChildren == ARITY

\* Inode::min_children()
MinChildren == ARITY \div 2

\* the leaf type the tree is exercised with: a run of len characters that
\* are all visible or all deleted
Leaf(len, is_deleted) == [len |-> len, is_deleted |-> is_deleted]

\* Summary::empty()
EmptySummary == 0

\* Summarize::summarize(): the visible length
Summarize(leaf) == IF leaf.is_deleted THEN EmptySummary ELSE leaf.len

\* Delete::delete()
LeafDelete(leaf) == [leaf EXCEPT !.is_deleted = TRUE]

\* Length::len(&summary)
LengthLen(summary) == summary

\* Gtree::inode()
InodeAt(self, idx) == self.inodes[idx]

\* Gtree::leaf()
LeafAt(self, idx) == self.lnodes[idx].value

\* Inode::len()
InodeLen(inode) == Len(inode.children)

\* Inode::is_full()
IsFull(inode) == InodeLen(inode) = MaxChildren

\* Inode::child(): the handle in slot child_idx, a leaf's when has_leaves
Child(inode, child_idx) == inode.children[child_idx + 1]

\* the summary of the child in slot child_idx, read as the code reads it:
\* an inode's stored summary, a leaf's summarize()
ChildSummary(self, of_inode, child_idx) ==
    LET inode == InodeAt(self, of_inode)
    IN  IF inode.has_leaves
        THEN Summarize(LeafAt(self, Child(inode, child_idx)))
        ELSE InodeAt(self, Child(inode, child_idx)).summary

\* Gtree::summary_offset_of_child(): the sum of the summaries of the first
\* child_offset children
RECURSIVE SummaryOffsetOfChild(_, _, _)
SummaryOffsetOfChild(self, in_inode, child_offset) ==
    IF child_offset = 0 THEN EmptySummary
    ELSE SummaryOffsetOfChild(self, in_inode, child_offset - 1)
           + ChildSummary(self, in_inode, child_offset - 1)

\* Gtree::child_at_offset(): the first child at whose end the running
\* offset is >= at_offset, with the summary of the children before it
GtreeChildAtOffset(self, of_inode, at_offset) ==
    LET len == InodeLen(InodeAt(self, of_inode))
        reached(i) ==
            LengthLen(SummaryOffsetOfChild(self, of_inode, i + 1)) >= at_offset
        found(idx) ==
            [idx |-> idx, offset |-> SummaryOffsetOfChild(self, of_inode, idx)]
    IN  found(CHOOSE i \in 0..(len - 1) :
                \A j \in 0..i : reached(j) <=> j = i)

\* Gtree::child_measure()
ChildMeasure(self, of_inode, child_idx) ==
    LengthLen(ChildSummary(self, of_inode, child_idx))

\* the first child at whose end the running length is > at (measure() of
\* child_containing_range and the first loops of the delete module)
FirstChildPast(self, of_inode, at) ==
    LET len == InodeLen(InodeAt(self, of_inode))
        past(i) == LengthLen(SummaryOffsetOfChild(self, of_inode, i + 1)) > at
    IN  CHOOSE i \in 0..(len - 1) : \A j \in 0..i : past(j) <=> j = i

\* Gtree::child_containing_range(): the child that holds all of
\* start..end and the length before it, or None
ChildContainingRange(self, of_inode, start, end) ==
    LET ended(idx, offset) ==
          IF offset >= end
          THEN Some([idx |-> idx,
                     offset |-> offset - ChildMeasure(self, of_inode, idx)])
          ELSE None
        found(idx) ==
          ended(idx, LengthLen(SummaryOffsetOfChild(self, of_inode, idx + 1)))
    IN  found(FirstChildPast(self, of_inode, start))

\* delete_child() that leaves the summary of the parent as it was
DeleteChildOnly(self, of_inode, child_idx) ==
    LET inode == InodeAt(self, of_inode)
        child == Child(inode, child_idx)
    IN  IF inode.has_leaves
        THEN [self EXCEPT !.lnodes[child].value = LeafDelete(@)]
        ELSE [self EXCEPT !.inodes[child].summary = EmptySummary]

\* Gtree::delete_child(): an internal child has its stored summary replaced
\* by the empty one, a leaf child is deleted; the parent loses the summary
DeleteChild(self, of_inode, child_idx) ==
    LET inode == InodeAt(self, of_inode)
        child == Child(inode, child_idx)
        child_summary == ChildSummary(self, of_inode, child_idx)
        deleted ==
            IF inode.has_leaves
            THEN [self EXCEPT !.lnodes[child].value = LeafDelete(@)]
            ELSE [self EXCEPT !.inodes[child].summary = EmptySummary]
    IN  [deleted EXCEPT !.inodes[of_inode].summary = @ - child_summary]

\* delete_child() on the children in slots from..(to - 1), in order
RECURSIVE DeleteChildren(_, _, _, _)
DeleteChildren(self, of_inode, from, to) ==
    IF from >= to THEN self
    ELSE DeleteChildren(DeleteChild(self, of_inode, from),
                        of_inode, from + 1, to)

\* Inode::from_leaf()
FromLeaf(leaf, summary, parent) ==
    [summary |-> summary, parent |-> parent, children |-> <<leaf>>,
     has_leaves |-> TRUE]

\* Inode::from_two_internals() that puts the second inode first
FromTwoInternalsSwapped(first, second, first_summary, second_summary, parent) ==
    [summary |-> first_summary + second_summary, parent |-> parent,
     children |-> <<second, first>>, has_leaves |-> FALSE]

\* Inode::from_two_internals()
FromTwoInternals(first, second, first_summary, second_summary, parent) ==
    [summary |-> first_summary + second_summary, parent |-> parent,
     children |-> <<first, second>>, has_leaves |-> FALSE]

\* Inode::insert()
InodeInsert(inode, at_offset, child, child_summary) ==
    [inode EXCEPT !.children = InsertAfter(@, at_offset, child),
                  !.summary = @ + child_summary]

\* Inode::insert_two() that does not count the first child when it places
\* the second
InodeInsertTwoSameSlot(inode, first_offset, first_child, first_summary, second_offset, second_child, second_summary) ==
    InodeInsert(InodeInsert(inode, first_offset, first_child, first_summary),
                second_offset, second_child, second_summary)

\* Inode::insert_two()
InodeInsertTwo(inode, first_offset, first_child, first_summary, second_offset, second_child, second_summary) ==
    InodeInsert(InodeInsert(inode, first_offset, first_child, first_summary),
                second_offset + 1, second_child, second_summary)

\* Inode::split() that loses the first child of the right side
InodeSplitDropsOne(inode, at_offset, new_summary) ==
    [this |-> [inode EXCEPT !.children = SubSeq(@, 1, at_offset),
                            !.summary = new_summary],
     rest |-> [summary |-> inode.summary - new_summary,
               parent |-> Dangling,
               children |-> SubSeq(inode.children, at_offset + 2,
                                   InodeLen(inode)),
               has_leaves |-> inode.has_leaves]]

\* Inode::split(): what stays (this) and the right side that is returned
InodeSplit(inode, at_offset, new_summary) ==
    [this |-> [inode EXCEPT !.children = SubSeq(@, 1, at_offset),
                            !.summary = new_summary],
     rest |-> [summary |-> inode.summary - new_summary,
               parent |-> Dangling,
               children |-> SubSeq(inode.children, at_offset + 1,
                                   InodeLen(inode)),
               has_leaves |-> inode.has_leaves]]

\* Gtree::new()
GtreeNew(first_leaf) ==
    [inodes |-> << FromLeaf(1, Summarize(first_leaf), Dangling) >>,
     lnodes |-> << [value |-> first_leaf, parent |-> 1] >>,
     root_idx |-> 1,
     last_insertion_cache |-> None]

\* Gtree::summary()
GtreeSummary(self) == InodeAt(self, self.root_idx).summary

\* push_inode() that does not tell the children their new parent
PushInodeOnly(self, inode) ==
    [gtree |-> [self EXCEPT !.inodes = Append(@, inode)],
     idx |-> Len(self.inodes) + 1]

\* Gtree::push_inode(): the inode gets the next handle and its children
\* are told their new parent
PushInode(self, inode) ==
    LET idx == Len(self.inodes) + 1
        pushed == [self EXCEPT !.inodes = Append(@, inode)]
        RECURSIVE told(_, _)
        told(gtree, i) ==
          IF i > InodeLen(inode) THEN gtree
          ELSE told(IF inode.has_leaves
                    THEN [gtree EXCEPT
                            !.lnodes[inode.children[i]].parent = idx]
                    ELSE [gtree EXCEPT
                            !.inodes[inode.children[i]].parent = idx],
                    i + 1)
    IN  [gtree |-> told(pushed, 1), idx |-> idx]

\* Gtree::push_leaf()
PushLeaf(self, leaf, parent) ==
    [gtree |-> [self EXCEPT !.lnodes =
                  Append(@, [value |-> leaf, parent |-> parent])],
     idx |-> Len(self.lnodes) + 1]

\* Gtree::root_has_split(): a new root over the old root and its split
RootHasSplit(self, root_split) ==
    LET with_root(split_idx, rooted) ==
          [rooted.gtree EXCEPT !.inodes[self.root_idx].parent = rooted.idx,
                               !.inodes[split_idx].parent = rooted.idx,
                               !.root_idx = rooted.idx]
        with_split(pushed) ==
          with_root(pushed.idx,
                    PushInode(pushed.gtree,
                              FromTwoInternals(self.root_idx, pushed.idx,
                                               GtreeSummary(pushed.gtree),
                                               root_split.summary, Dangling)))
    IN  with_split(PushInode(self, root_split))

\* Gtree::split_inode()
SplitInode(self, inode_idx, at_offset) ==
    LET halves(split) ==
          [gtree |-> [self EXCEPT !.inodes[inode_idx] = split.this],
           rest |-> split.rest]
    IN  halves(InodeSplit(InodeAt(self, inode_idx), at_offset,
                          SummaryOffsetOfChild(self, inode_idx, at_offset)))

\* insert_in_inode() that always splits a full inode one slot after the
\* middle, wherever the child goes
InsertInInodeSplitLate(self, idx, at_offset, child, child_summary) ==
    LET inode == InodeAt(self, idx)
        split_offset == InodeLen(inode) - MinChildren
        into_left(split) ==
          [gtree |-> [split.gtree EXCEPT !.inodes[idx] =
                        InodeInsert(@, at_offset, child, child_summary)],
           split |-> Some(split.rest)]
        into_right(split) ==
          [gtree |-> split.gtree,
           split |-> Some(InodeInsert(
                            split.rest,
                            at_offset - InodeLen(InodeAt(split.gtree, idx)),
                            child, child_summary))]
    IN  IF IsFull(inode)
        THEN IF at_offset <= MinChildren + 1
             THEN into_left(SplitInode(self, idx, split_offset + 1))
             ELSE into_right(SplitInode(self, idx, split_offset + 1))
        ELSE [gtree |-> [self EXCEPT !.inodes[idx] =
                           InodeInsert(@, at_offset, child, child_summary)],
              split |-> None]

\* Gtree::insert_in_inode(): the child goes in slot at_offset; a full inode
\* is split first and the right side is returned
InsertInInode(self, idx, at_offset, child, child_summary) ==
    LET inode == InodeAt(self, idx)
        split_offset == InodeLen(inode) - MinChildren
        into_left(split) ==
          [gtree |-> [split.gtree EXCEPT !.inodes[idx] =
                        InodeInsert(@, at_offset, child, child_summary)],
           split |-> Some(split.rest)]
        into_right(split) ==
          [gtree |-> split.gtree,
           split |-> Some(InodeInsert(
                            split.rest,
                            at_offset - InodeLen(InodeAt(split.gtree, idx)),
                            child, child_summary))]
    IN  IF IsFull(inode)
        THEN IF at_offset <= MinChildren
             THEN into_left(SplitInode(self, idx, split_offset))
             ELSE into_right(SplitInode(self, idx, split_offset + 1))
        ELSE [gtree |-> [self EXCEPT !.inodes[idx] =
                           InodeInsert(@, at_offset, child, child_summary)],
              split |-> None]

\* Gtree::insert_two_in_inode(), the offsets already in order
RECURSIVE InsertTwoOrdered(_, _, _, _, _, _, _, _)
InsertTwoOrdered(self, idx, first_offset, first_child, first_summary, second_offset, second_child, second_summary) ==
    LET inode == InodeAt(self, idx)
        len == InodeLen(inode)
        split_offset == len - MinChildren
        children_after_second == len - second_offset
        both_left(split) ==
          [gtree |-> InsertTwoOrdered(split.gtree, idx,
                       first_offset, first_child, first_summary,
                       second_offset, second_child, second_summary).gtree,
           split |-> Some(split.rest)]
        both_right(split, new_len) ==
          [gtree |-> split.gtree,
           split |-> Some(InodeInsertTwo(split.rest,
                            first_offset - new_len, first_child,
                            first_summary,
                            second_offset - new_len, second_child,
                            second_summary))]
        one_each(split, new_len) ==
          [gtree |-> [split.gtree EXCEPT !.inodes[idx] =
                        InodeInsert(@, first_offset, first_child,
                                    first_summary)],
           split |-> Some(InodeInsert(split.rest,
                            second_offset - new_len, second_child,
                            second_summary))]
        right(split) == both_right(split, InodeLen(InodeAt(split.gtree, idx)))
        each(split) == one_each(split, InodeLen(InodeAt(split.gtree, idx)))
    IN  IF MaxChildren - len < 2
        THEN IF children_after_second > MinChildren - 1
             THEN both_left(SplitInode(self, idx, split_offset))
             ELSE IF children_after_second < MinChildren - 1
                     /\ first_offset >= split_offset + 2
             THEN right(SplitInode(self, idx, split_offset + 2))
             ELSE each(SplitInode(self, idx, split_offset + 1))
        ELSE [gtree |-> [self EXCEPT !.inodes[idx] =
                           InodeInsertTwo(@, first_offset, first_child,
                                          first_summary, second_offset,
                                          second_child, second_summary)],
              split |-> None]

\* Gtree::insert_two_in_inode(): the two children are swapped when the
\* first offset is the greater one
InsertTwoInInode(self, idx, first_offset, first_child, first_summary, second_offset, second_child, second_summary) ==
    LET swap == first_offset > second_offset
    IN  InsertTwoOrdered(self, idx,
          IF swap THEN second_offset ELSE first_offset,
          IF swap THEN second_child ELSE first_child,
          IF swap THEN second_summary ELSE first_summary,
          IF swap THEN first_offset ELSE second_offset,
          IF swap THEN first_child ELSE second_child,
          IF swap THEN first_summary ELSE second_summary)

\* Gtree::with_internal_mut(): ran is what fun returned together with the
\* tree it left; the parent of the inode takes the change of its summary
WithInternalMut(self, inode_idx, ran) ==
    LET old_summary == InodeAt(self, inode_idx).summary
        inode == InodeAt(ran.gtree, inode_idx)
        new_summary == inode.summary
        parent_idx == inode.parent
    IN  [ran EXCEPT !.gtree.inodes[parent_idx].summary =
                      (@ - old_summary) + new_summary]

\* Gtree::with_internal_mut_handle_split(): the split fun returned becomes
\* the next child of the parent, which may split in turn
WithInternalMutHandleSplit(self, inode_idx, idx_in_parent, ran) ==
    LET with_inserted(after, inserted) ==
          [after EXCEPT !.gtree = inserted.gtree, !.split = inserted.split]
        with_pushed(after, parent_idx, split, pushed) ==
          with_inserted(after,
                        InsertInInode(pushed.gtree, parent_idx,
                                      idx_in_parent + 1, pushed.idx,
                                      split.summary))
        with_split(after, parent_idx, split) ==
          with_pushed(after, parent_idx, split, PushInode(after.gtree, split))
        with_parent(after, parent_idx) ==
          with_split(after, parent_idx,
                     [after.split.value EXCEPT !.parent = parent_idx])
        handle_split(after) ==
          IF ~after.split.some THEN after
          ELSE with_parent(after, InodeAt(after.gtree, inode_idx).parent)
    IN  handle_split(WithInternalMut(self, inode_idx, ran))

\* Gtree::with_leaf_mut(): ran.leaf is the leaf as fun left it; the parent
\* of the leaf takes the change of its summary
WithLeafMut(self, leaf_idx, ran) ==
    LET lnode == self.lnodes[leaf_idx]
        old_summary == Summarize(lnode.value)
        new_summary == Summarize(ran.leaf)
    IN  [self EXCEPT !.lnodes[leaf_idx].value = ran.leaf,
                     !.inodes[lnode.parent].summary =
                        (@ - old_summary) + new_summary]

\* Gtree::with_leaf_mut_handle_split(): the leaves fun returned (ran.first,
\* ran.second) become the next children of the parent of the leaf
WithLeafMutHandleSplit(self, leaf_idx, idx_in_parent, ran) ==
    LET parent_idx == self.lnodes[leaf_idx].parent
        insert_at == idx_in_parent + 1
        two_inserted(left, right, inserted) ==
          [gtree |-> inserted.gtree,
           ret |-> <<Some(left.idx), Some(right.idx)>>,
           split |-> inserted.split]
        two_pushed(left, right) ==
          two_inserted(left, right,
                       InsertTwoInInode(right.gtree, parent_idx,
                           insert_at, left.idx, Summarize(ran.first.value),
                           insert_at, right.idx, Summarize(ran.second.value)))
        two(left) ==
          two_pushed(left, PushLeaf(left.gtree, ran.second.value, parent_idx))
        one_inserted(left, inserted) ==
          [gtree |-> inserted.gtree,
           ret |-> <<Some(left.idx), None>>,
           split |-> inserted.split]
        one(left) ==
          one_inserted(left,
                       InsertInInode(left.gtree, parent_idx, insert_at,
                                     left.idx, Summarize(ran.first.value)))
        handle_split(mutated) ==
          IF ran.first.some /\ ran.second.some
          THEN two(PushLeaf(mutated, ran.first.value, parent_idx))
          ELSE IF ran.first.some
          THEN one(PushLeaf(mutated, ran.first.value, parent_idx))
          ELSE [gtree |-> mutated, ret |-> <<None, None>>, split |-> None]
    IN  handle_split(WithLeafMut(self, leaf_idx, ran))

\* The closure passed to insert(): it puts len new characters at offset of
\* the leaf it is given. At the start of the leaf the new characters take
\* the leaf's place and the old leaf is returned to follow them; inside
\* the leaf, the leaf keeps what is before offset and the new leaf and the
\* rest are returned; at the end the leaf grows in place (extend) or the
\* new leaf is returned. The closure insert_at_leaf() builds hands back
\* what the first run of the closure produced (replay).
InsertWith(with, leaf, offset) ==
    IF with.kind = "replay"
    THEN [leaf |-> with.leaf, first |-> with.first, second |-> with.second]
    ELSE IF offset = 0
    THEN [leaf |-> Leaf(with.len, FALSE), first |-> Some(leaf),
          second |-> None]
    ELSE IF offset < leaf.len
    THEN [leaf |-> [leaf EXCEPT !.len = offset],
          first |-> Some(Leaf(with.len, FALSE)),
          second |-> Some([leaf EXCEPT !.len = @ - offset])]
    ELSE IF with.extend
    THEN [leaf |-> [leaf EXCEPT !.len = @ + with.len], first |-> None,
          second |-> None]
    ELSE [leaf |-> leaf, first |-> Some(Leaf(with.len, FALSE)),
          second |-> None]

\* insert::insert_at_offset(): down to the leaf that holds at_offset,
\* where insert_with runs; the cache remembers the leaf that took the
\* characters and the summary before it
RECURSIVE InsertAtOffsetIn(_, _, _, _, _)
InsertAtOffsetIn(gtree, in_inode, leaf_offset, at_offset, insert_with) ==
    LET cached(done, child, offset) ==
          [done EXCEPT !.gtree.last_insertion_cache =
             IF at_offset = 0 THEN None
             ELSE IF done.ret[1].some
             THEN Some(<<done.ret[1].value,
                         offset + Summarize(LeafAt(done.gtree, child))>>)
             ELSE Some(<<child, offset>>)]
        in_child(idx, child, offset) ==
          IF ~InodeAt(gtree, in_inode).has_leaves
          THEN WithInternalMutHandleSplit(gtree, child, idx,
                   InsertAtOffsetIn(gtree, child, offset, at_offset,
                                    insert_with))
          ELSE cached(WithLeafMutHandleSplit(gtree, child, idx,
                          InsertWith(insert_with, LeafAt(gtree, child),
                                     at_offset - LengthLen(offset))),
                      child, offset)
        descend(at) ==
          in_child(at.idx, Child(InodeAt(gtree, in_inode), at.idx),
                   leaf_offset + at.offset)
    IN  descend(GtreeChildAtOffset(gtree, in_inode,
                                   at_offset - LengthLen(leaf_offset)))

\* Gtree::insert_at_offset()
InsertAtOffset(self, offset, insert_with) ==
    LET rooted(done) ==
          [gtree |-> IF done.split.some
                     THEN RootHasSplit(done.gtree, done.split.value)
                     ELSE done.gtree,
           ret |-> done.ret]
    IN  rooted(InsertAtOffsetIn(self, self.root_idx, EmptySummary, offset,
                                insert_with))

\* Summary::apply_patch() on the inode and on everything above it
RECURSIVE ApplyPatchFrom(_, _, _)
ApplyPatchFrom(self, parent, summary_patch) ==
    IF parent = Dangling THEN self
    ELSE ApplyPatchFrom(
             [self EXCEPT !.inodes[parent].summary = @ + summary_patch],
             InodeAt(self, parent).parent, summary_patch)

\* Gtree::insert_at_leaf(): insert_with runs on the cached leaf; if it
\* returns a leaf the call starts over from the root, if not the change of
\* the leaf's summary is applied to every inode above it
InsertAtLeaf(self, leaf_idx, leaf_offset, provided_offset, insert_with) ==
    LET lnode == self.lnodes[leaf_idx]
        old_summary == Summarize(lnode.value)
        inserted(ran) ==
          IF ran.first.some
          THEN InsertAtOffset([self EXCEPT !.last_insertion_cache = None],
                              provided_offset,
                              [kind |-> "replay", leaf |-> ran.leaf,
                               first |-> ran.first, second |-> ran.second])
          ELSE [gtree |->
                  ApplyPatchFrom(
                      [self EXCEPT !.lnodes[leaf_idx].value = ran.leaf],
                      lnode.parent, Summarize(ran.leaf) - old_summary),
                ret |-> <<None, None>>]
    IN  inserted(InsertWith(insert_with, lnode.value,
                            provided_offset - LengthLen(leaf_offset)))

\* Gtree::insert()
GtreeInsert(self, offset, insert_with) ==
    LET cache == self.last_insertion_cache
        within(leaf_idx, m_offset) ==
          /\ offset > m_offset
          /\ offset <= m_offset + LengthLen(Summarize(LeafAt(self, leaf_idx)))
    IN  IF cache.some /\ within(cache.value[1], LengthLen(cache.value[2]))
        THEN InsertAtLeaf(self, cache.value[1], cache.value[2], offset,
                          insert_with)
        ELSE InsertAtOffset(self, offset, insert_with)

\* The closures passed to delete_range(): each hides the part of the leaf
\* it is asked to hide. A part that is cut off becomes a new leaf, and the
\* leaf given keeps the first part.

\* del_range: start..end of the leaf
DelRange(leaf, start, end) ==
    IF start = 0 /\ end = leaf.len
    THEN [leaf |-> LeafDelete(leaf), first |-> None, second |-> None]
    ELSE IF start = 0
    THEN [leaf |-> LeafDelete([leaf EXCEPT !.len = end]),
          first |-> Some([leaf EXCEPT !.len = @ - end]), second |-> None]
    ELSE IF end = leaf.len
    THEN [leaf |-> [leaf EXCEPT !.len = start],
          first |-> Some(LeafDelete([leaf EXCEPT !.len = @ - start])),
          second |-> None]
    ELSE [leaf |-> [leaf EXCEPT !.len = start],
          first |-> Some(LeafDelete([leaf EXCEPT !.len = end - start])),
          second |-> Some([leaf EXCEPT !.len = @ - end])]

\* del_from: everything of the leaf from offset on
DelFrom(leaf, offset) ==
    IF offset = 0
    THEN [leaf |-> LeafDelete(leaf), first |-> None, second |-> None]
    ELSE [leaf |-> [leaf EXCEPT !.len = offset],
          first |-> Some(LeafDelete([leaf EXCEPT !.len = @ - offset])),
          second |-> None]

\* del_up_to: everything of the leaf before offset
DelUpTo(leaf, offset) ==
    IF offset = leaf.len
    THEN [leaf |-> LeafDelete(leaf), first |-> None, second |-> None]
    ELSE [leaf |-> LeafDelete([leaf EXCEPT !.len = offset]),
          first |-> Some([leaf EXCEPT !.len = @ - offset]),
          second |-> None]

\* delete::delete_from(): in the inode, the children after the one that
\* holds from are deleted with delete_child(), and the call goes down into
\* that one; at the leaf del_from runs
RECURSIVE DeleteFrom(_, _, _)
DeleteFrom(gtree, idx, from) ==
    LET inode == InodeAt(gtree, idx)
        at_leaf(done) ==
          [gtree |-> done.gtree, ret |-> done.ret[1], split |-> done.split]
        in_child(deleted, child_idx, child, offset) ==
          IF ~inode.has_leaves
          THEN WithInternalMutHandleSplit(deleted, child, child_idx,
                   DeleteFrom(deleted, child, from - offset))
          ELSE at_leaf(WithLeafMutHandleSplit(deleted, child, child_idx,
                           DelFrom(LeafAt(deleted, child), from - offset)))
        descend(child_idx) ==
          in_child(DeleteChildren(gtree, idx, child_idx + 1, InodeLen(inode)),
                   child_idx, Child(inode, child_idx),
                   LengthLen(SummaryOffsetOfChild(gtree, idx, child_idx)))
    IN  descend(FirstChildPast(gtree, idx, from))

\* delete::delete_up_to(): in the inode, the children before the one that
\* holds up_to are deleted with delete_child(), and the call goes down
\* into that one; at the leaf del_up_to runs
RECURSIVE DeleteUpTo(_, _, _)
DeleteUpTo(gtree, idx, up_to) ==
    LET inode == InodeAt(gtree, idx)
        at_leaf(done) ==
          [gtree |-> done.gtree, ret |-> done.ret[1], split |-> done.split]
        in_child(deleted, child_idx, child, offset) ==
          IF ~inode.has_leaves
          THEN WithInternalMutHandleSplit(deleted, child, child_idx,
                   DeleteUpTo(deleted, child, up_to - offset))
          ELSE at_leaf(WithLeafMutHandleSplit(deleted, child, child_idx,
                           DelUpTo(LeafAt(deleted, child), up_to - offset)))
        descend(at) ==
          in_child(DeleteChildren(gtree, idx, 0, at.idx), at.idx,
                   Child(inode, at.idx), LengthLen(at.offset))
    IN  descend(GtreeChildAtOffset(gtree, idx, up_to))

\* one edge of delete_range_in_inode(): the child in slot child_idx of idx
\* is cut with delete_from() (from_start) or delete_up_to(). What is cut
\* off, a leaf or the split of the child, is pushed with idx as its parent
\* and returned as extra to be inserted once both edges are done.
DeleteEdge(gtree, idx, child_idx, at, from_start) ==
    LET inode == InodeAt(gtree, idx)
        child == Child(inode, child_idx)
        inode_pushed(ran, extra, pushed) ==
          [gtree |-> pushed.gtree, leaf_idx |-> ran.ret,
           extra |-> Some(<<pushed.idx, extra.summary>>)]
        inode_extra(ran, extra) ==
          inode_pushed(ran, extra, PushInode(ran.gtree, extra))
        inode_cut(ran) ==
          IF ran.split.some
          THEN inode_extra(ran, [ran.split.value EXCEPT !.parent = idx])
          ELSE [gtree |-> ran.gtree, leaf_idx |-> ran.ret, extra |-> None]
        leaf_pushed(ran, pushed) ==
          [gtree |-> pushed.gtree, leaf_idx |-> Some(pushed.idx),
           extra |-> Some(<<pushed.idx, Summarize(ran.first.value)>>)]
        leaf_mutated(ran, mutated) ==
          IF ran.first.some
          THEN leaf_pushed(ran, PushLeaf(mutated, ran.first.value, idx))
          ELSE [gtree |-> mutated, leaf_idx |-> None, extra |-> None]
        leaf_cut(ran) == leaf_mutated(ran, WithLeafMut(gtree, child, ran))
    IN  IF ~inode.has_leaves
        THEN inode_cut(WithInternalMut(gtree, child,
                           IF from_start THEN DeleteFrom(gtree, child, at)
                           ELSE DeleteUpTo(gtree, child, at)))
        ELSE leaf_cut(IF from_start THEN DelFrom(LeafAt(gtree, child), at)
                      ELSE DelUpTo(LeafAt(gtree, child), at))

\* delete::delete_range_in_inode(): the range spans several children of
\* idx. The child that holds the start is cut from the start on, the
\* children between are deleted with delete_child(), the child that holds
\* the end is cut up to the end, and what the edges cut off is inserted
\* after them.
DeleteRangeInInode(gtree, idx, start, end) ==
    LET len == InodeLen(InodeAt(gtree, idx))
        before(i) == LengthLen(SummaryOffsetOfChild(gtree, idx, i))
        done(from, up_to, inserted) ==
          [gtree |-> inserted.gtree,
           ret |-> <<from.leaf_idx, up_to.leaf_idx>>,
           split |-> inserted.split]
        insert_extras(from, up_to, start_offset, end_offset) ==
          done(from, up_to,
               IF from.extra.some /\ up_to.extra.some
               THEN InsertTwoInInode(up_to.gtree, idx,
                        start_offset, from.extra.value[1],
                        from.extra.value[2],
                        end_offset, up_to.extra.value[1],
                        up_to.extra.value[2])
               ELSE IF from.extra.some \/ up_to.extra.some
               THEN InsertInInode(
                        up_to.gtree, idx,
                        IF from.extra.some THEN start_offset ELSE end_offset,
                        IF from.extra.some THEN from.extra.value[1]
                        ELSE up_to.extra.value[1],
                        IF from.extra.some THEN from.extra.value[2]
                        ELSE up_to.extra.value[2])
               ELSE [gtree |-> up_to.gtree, split |-> None])
        cut_end(from, idx_start, idx_end) ==
          insert_extras(from,
                        DeleteEdge(DeleteChildren(from.gtree, idx,
                                                  idx_start + 1, idx_end),
                                   idx, idx_end, end - before(idx_end), FALSE),
                        idx_start + 1, idx_end + 1)
        cut_start(idx_start, idx_end) ==
          cut_end(DeleteEdge(gtree, idx, idx_start,
                             start - before(idx_start), TRUE),
                  idx_start, idx_end)
        find_end(idx_start) ==
          cut_start(idx_start,
                    CHOOSE i \in (idx_start + 1)..(len - 1) :
                      \A j \in (idx_start + 1)..i :
                        before(j + 1) >= end <=> j = i)
    IN  find_end(FirstChildPast(gtree, idx, start))

\* delete::delete_range(): down while one child holds the whole range; at
\* a leaf del_range runs, at an inode whose children share the range
\* delete_range_in_inode() takes over
RECURSIVE DeleteRangeIn(_, _, _, _)
DeleteRangeIn(gtree, in_inode, start, end) ==
    LET in_child(child_idx, child, offset) ==
          IF ~InodeAt(gtree, in_inode).has_leaves
          THEN WithInternalMutHandleSplit(gtree, child, child_idx,
                   DeleteRangeIn(gtree, child, start - offset, end - offset))
          ELSE WithLeafMutHandleSplit(gtree, child, child_idx,
                   DelRange(LeafAt(gtree, child), start - offset,
                            end - offset))
        descend(found) ==
          IF ~found.some
          THEN DeleteRangeInInode(gtree, in_inode, start, end)
          ELSE in_child(found.value.idx,
                        Child(InodeAt(gtree, in_inode), found.value.idx),
                        found.value.offset)
    IN  descend(ChildContainingRange(gtree, in_inode, start, end))

\* Gtree::delete_range()
GtreeDeleteRange(self, start, end) ==
    LET rooted(done) ==
          [gtree |-> [(IF done.split.some
                       THEN RootHasSplit(done.gtree, done.split.value)
                       ELSE done.gtree)
                      EXCEPT !.last_insertion_cache = None],
           ret |-> done.ret]
    IN  rooted(DeleteRangeIn(self, self.root_idx, start, end))

\* -------------------------------------------------- the Gtree on its own
\* A Gtree of the leaves above, driven through its public calls alone.

\* the first leaf holds up to MaxFirstLen characters
MaxFirstLen == 4

\* at most MaxCalls calls are made on the tree
MaxCalls == 4

\* every insert() brings InsLen characters
InsLen == 1

\* the tree shows at most MaxGtreeLen characters
MaxGtreeLen == 7

\* the length of the tree as insert() and delete_range() see it
GtreeLen(self) == LengthLen(GtreeSummary(self))

\* Gtree::new(first_leaf); no replica is involved
InitGtree ==
    /\ replicas = [r \in ReplicaIds |-> Absent]
    /\ log = << >>
    /\ history = << >>
    /\ anchors = {}
    /\ \E len \in 1..MaxFirstLen : gt = GtreeNew(Leaf(len, FALSE))
    /\ called = [n |-> 0, op |-> "new", start |-> 0, end |-> 0,
                 ret |-> <<None, None>>]

\* gtree.insert(offset, insert_with)
DoGtreeInsert(offset, extend) ==
    /\ called.n < MaxCalls
    /\ GtreeLen(gt) + InsLen <= MaxGtreeLen
    /\ offset <= GtreeLen(gt)
    /\ LET returns(done) ==
             /\ gt' = done.gtree
             /\ called' = [n |-> called.n + 1, op |-> "insert",
                           start |-> offset, end |-> offset,
                           ret |-> done.ret]
       IN  returns(GtreeInsert(gt, offset,
                               [kind |-> "insert", len |-> InsLen,
                                extend |-> extend]))
    /\ UNCHANGED <<replicas, log, history, anchors>>

\* gtree.delete_range(start..end, del_range, del_from, del_up_to)
DoGtreeDeleteRange(start, end) ==
    /\ called.n < MaxCalls
    /\ start < end
    /\ end <= GtreeLen(gt)
    /\ LET returns(done) ==
             /\ gt' = done.gtree
             /\ called' = [n |-> called.n + 1, op |-> "delete_range",
                           start |-> start, end |-> end, ret |-> done.ret]
       IN  returns(GtreeDeleteRange(gt, start, end))
    /\ UNCHANGED <<replicas, log, history, anchors>>

NextGtree ==
    \/ \E offset \in 0..MaxGtreeLen, extend \in BOOLEAN :
         DoGtreeInsert(offset, extend)
    \/ \E start, end \in 0..MaxGtreeLen : DoGtreeDeleteRange(start, end)

SpecGtree == InitGtree /\ [][NextGtree]_vars

\* the leaves below the inode, in order
RECURSIVE LeavesBelow(_, _)
LeavesBelow(self, inode_idx) ==
    LET inode == InodeAt(self, inode_idx)
        RECURSIVE Upto(_)
        Upto(n) == IF n = 0 THEN << >>
                   ELSE Upto(n - 1) \o LeavesBelow(self, inode.children[n])
    IN  IF inode.has_leaves THEN inode.children
        ELSE Upto(InodeLen(inode))

\* the inodes below the inode, itself included
RECURSIVE InodesBelow(_, _)
InodesBelow(self, inode_idx) ==
    LET inode == InodeAt(self, inode_idx)
    IN  {inode_idx} \cup
        IF inode.has_leaves THEN {}
        ELSE UNION { InodesBelow(self, inode.children[n]) :
                       n \in 1..InodeLen(inode) }


\* the sum of the summaries of the leaves, in the order given
RECURSIVE SumOfLeaves(_, _)
SumOfLeaves(self, leaves) ==
    IF leaves = << >> THEN EmptySummary
    ELSE Summarize(LeafAt(self, Head(leaves)))
           + SumOfLeaves(self, Tail(leaves))

\* the inode stores the sum of the summaries of its children
SummaryIsSum(self, inode_idx) ==
    InodeAt(self, inode_idx).summary
      = SummaryOffsetOfChild(self, inode_idx,
                             InodeLen(InodeAt(self, inode_idx)))

\* C29: after any sequence of Gtree::insert and Gtree::delete_range calls
\* the summary stored in every internal node is the sum of the summaries
\* of its children, and the root summary is the sum of the summaries of
\* all the leaves.
C29_SummaryInvariant ==
    /\ \A inode_idx \in InodesBelow(gt, gt.root_idx) :
         SummaryIsSum(gt, inode_idx)
    /\ GtreeSummary(gt) = SumOfLeaves(gt, LeavesBelow(gt, gt.root_idx))


\* the length of the first n of the leaves
RunningLen(self, leaves, n) ==
    LengthLen(SumOfLeaves(self, SubSeq(leaves, 1, n)))

\* the place, among the leaves in order, of the leaf that holds the start
\* of the range: the first at whose end the length is > start
StartLeaf(self, leaves, start) ==
    CHOOSE i \in 1..Len(leaves) :
        /\ RunningLen(self, leaves, i) > start
        /\ \A j \in 1..(i - 1) : RunningLen(self, leaves, j) <= start

\* the place of the leaf that holds the end of the range: the first at
\* whose end the length is >= end
EndLeaf(self, leaves, end) ==
    CHOOSE i \in 1..Len(leaves) :
        /\ RunningLen(self, leaves, i) >= end
        /\ \A j \in 1..(i - 1) : RunningLen(self, leaves, j) < end

\* the leaves strictly between the leaf that holds the start of the range
\* and the leaf that holds its end
LeavesInside(self, start, end) ==
    LET leaves == LeavesBelow(self, self.root_idx)
    IN  { leaves[i] : i \in (StartLeaf(self, leaves, start) + 1)
                            ..(EndLeaf(self, leaves, end) - 1) }

\* a delete_range() step leaves every leaf inside its range deleted
TombstonesInside ==
    called'.op = "delete_range" /\ called'.n = called.n + 1
    => \A leaf_idx \in LeavesInside(gt, called'.start, called'.end) :
         /\ LeafAt(gt', leaf_idx).is_deleted
         /\ Summarize(LeafAt(gt', leaf_idx)) = EmptySummary

\* C30: when the range of a delete_range() spans more than one leaf, every
\* leaf strictly between the leaf holding the range start and the leaf
\* holding the range end, at any depth, has Delete::delete applied to it
\* and summarizes to the empty summary afterwards.
C30_TombstonesInside == [][TombstonesInside]_vars

\* ------------------------------------------------- the Gtree, grown first
\* A Gtree that is first grown by inserts in the middle of what it shows,
\* at most GrowCalls of them, and then takes at most FreeCalls calls of
\* any kind: trees of three levels are reached, with full inodes on every
\* level, and calls are made on a tree that a delete_range has been
\* through.

\* the first leaf has at most GrownFirstLen characters
GrownFirstLen == 3

\* at most GrowCalls inserts grow the tree
GrowCalls == 7

\* every insert() on this tree brings GrowLen characters
GrowLen == 2

\* at most FreeCalls calls of any kind are made
FreeCalls == 2

\* the most characters the tree can show
MaxGrownLen == GrownFirstLen + GrowLen * (GrowCalls + FreeCalls)

\* Gtree::new(first_leaf); no replica is involved
InitGrown ==
    /\ replicas = [r \in ReplicaIds |-> Absent]
    /\ log = << >>
    /\ history = << >>
    /\ anchors = {}
    /\ \E len \in 2..GrownFirstLen : gt = GtreeNew(Leaf(len, FALSE))
    /\ called = [n |-> 0, free |-> 0, op |-> "new", start |-> 0, end |-> 0,
                 ret |-> <<None, None>>]

\* gtree.insert(offset, insert_with), what is inserted GrowLen long; free
\* tells a call of the second kind
InsertGrown(offset, extend, free) ==
    LET returns(done) ==
          /\ gt' = done.gtree
          /\ called' = [n |-> called.n + 1, free |-> called.free + free,
                        op |-> "insert", start |-> offset, end |-> offset,
                        ret |-> done.ret]
    IN  returns(GtreeInsert(gt, offset,
                            [kind |-> "insert", len |-> GrowLen,
                             extend |-> extend]))

\* an insert in the middle of the tree that makes a leaf of its own
GrowGtree ==
    /\ called.free = 0
    /\ called.n < GrowCalls
    /\ InsertGrown(GtreeLen(gt) \div 2, FALSE, 0)
    /\ UNCHANGED <<replicas, log, history, anchors>>

\* gtree.insert(offset, insert_with) at any offset
CallInsert(offset, extend) ==
    /\ called.free < FreeCalls
    /\ offset <= GtreeLen(gt)
    /\ InsertGrown(offset, extend, 1)
    /\ UNCHANGED <<replicas, log, history, anchors>>

\* gtree.delete_range(start..end, del_range, del_from, del_up_to) on any
\* range
CallDeleteRange(start, end) ==
    /\ called.free < FreeCalls
    /\ start < end
    /\ end <= GtreeLen(gt)
    /\ LET returns(done) ==
             /\ gt' = done.gtree
             /\ called' = [n |-> called.n + 1, free |-> called.free + 1,
                           op |-> "delete_range", start |-> start,
                           end |-> end, ret |-> done.ret]
       IN  returns(GtreeDeleteRange(gt, start, end))
    /\ UNCHANGED <<replicas, log, history, anchors>>

NextGrown ==
    \/ GrowGtree
    \/ \E offset \in 0..MaxGrownLen, extend \in BOOLEAN :
         CallInsert(offset, extend)
    \/ \E start, end \in 0..MaxGrownLen : CallDeleteRange(start, end)

SpecGrown == InitGrown /\ [][NextGrown]_vars

\* ------------------------------------------------------------ Gtree: shape
\* every inode of the arena
AllInodes(self) == DOMAIN self.inodes

\* every leaf of the arena
AllLeaves(self) == DOMAIN self.lnodes

\* C31: after any sequence of insert and delete_range calls every internal
\* node has at most ARITY children and every internal node other than the
\* root has at least ARITY / 2 children.
C31_Occupancy ==
    \A inode_idx \in AllInodes(gt) :
        /\ InodeLen(InodeAt(gt, inode_idx)) <= MaxChildren
        /\ inode_idx # gt.root_idx
           => InodeLen(InodeAt(gt, inode_idx)) >= MinChildren

\* after a delete_range the tree has three levels, a full inode and an
\* inode that is not the root with the fewest children allowed
C31_Witness ==
    /\ called.op = "delete_range"
    /\ ~InodeAt(gt, gt.root_idx).has_leaves
    /\ ~InodeAt(gt, Child(InodeAt(gt, gt.root_idx), 0)).has_leaves
    /\ \E inode_idx \in AllInodes(gt) : IsFull(InodeAt(gt, inode_idx))
    /\ \E inode_idx \in AllInodes(gt) \ {gt.root_idx} :
         InodeLen(InodeAt(gt, inode_idx)) = MinChildren

\* the children of the inode after an insertion that split it: those the
\* inode keeps, then those of the sibling that was returned
ChildrenAcross(done, idx) ==
    InodeAt(done.gtree, idx).children \o done.split.value.children

\* the inode was split as it should be: the sibling has the fewest children
\* allowed, the inode has as many or more, and together they hold expected
SplitAsExpected(done, idx, expected) ==
    /\ done.split.some
    /\ InodeLen(done.split.value) = MinChildren
    /\ InodeLen(InodeAt(done.gtree, idx)) >= MinChildren
    /\ ChildrenAcross(done, idx) = expected

\* the children with first put after the first first_offset of them and
\* second after the first second_offset of them, first before second when
\* the two offsets are the same
WithTwoMore(children, first_offset, first, second_offset, second) ==
    IF first_offset <= second_offset
    THEN InsertAfter(InsertAfter(children, second_offset, second),
                     first_offset, first)
    ELSE InsertAfter(InsertAfter(children, first_offset, first),
                     second_offset, second)

\* the handle and the summary a new child comes with
NewChild(self, n) == Len(self.inodes) + Len(self.lnodes) + n

NewSummary == Summarize(Leaf(1, FALSE))

\* insert_in_inode() on a full inode, at every offset
SplitsForOne(self, idx) ==
    \A at_offset \in 0..InodeLen(InodeAt(self, idx)) :
        SplitAsExpected(
            InsertInInode(self, idx, at_offset, NewChild(self, 1), NewSummary),
            idx,
            InsertAfter(InodeAt(self, idx).children, at_offset,
                        NewChild(self, 1)))

\* insert_two_in_inode() on an inode without room for two, at every pair
\* of offsets
SplitsForTwo(self, idx) ==
    \A first_offset, second_offset \in 0..InodeLen(InodeAt(self, idx)) :
        SplitAsExpected(
            InsertTwoInInode(self, idx,
                             first_offset, NewChild(self, 1), NewSummary,
                             second_offset, NewChild(self, 2), NewSummary),
            idx,
            WithTwoMore(InodeAt(self, idx).children,
                        first_offset, NewChild(self, 1),
                        second_offset, NewChild(self, 2)))

\* C32: when one child (insert_in_inode) or two children
\* (insert_two_in_inode) are inserted into an inode that has no room for
\* them, the inode is split so that the new right sibling holds exactly
\* ARITY / 2 children once the insertion is done, the left part keeps at
\* least ARITY / 2, and the children of the left part followed by those of
\* the right sibling are the old children in their old order with the new
\* children at the requested positions, the first new child before the
\* second.
C32_InodeSplit ==
    \A idx \in AllInodes(gt) :
        /\ IsFull(InodeAt(gt, idx)) => SplitsForOne(gt, idx)
        /\ MaxChildren - InodeLen(InodeAt(gt, idx)) < 2 => SplitsForTwo(gt, idx)

\* inodes have been split on the way to this tree, which has a full inode
\* of leaves, a full inode of inodes and an inode with room for one child
\* only
C32_Witness ==
    /\ Len(gt.inodes) >= 4
    /\ \E idx \in AllInodes(gt) :
         IsFull(InodeAt(gt, idx)) /\ InodeAt(gt, idx).has_leaves
    /\ \E idx \in AllInodes(gt) :
         IsFull(InodeAt(gt, idx)) /\ ~InodeAt(gt, idx).has_leaves
    /\ \E idx \in AllInodes(gt) : InodeLen(InodeAt(gt, idx)) = MaxChildren - 1

\* how many inodes are above each of the leaves below the inode, itself
\* included
RECURSIVE LeafDepths(_, _)
LeafDepths(self, inode_idx) ==
    IF InodeAt(self, inode_idx).has_leaves THEN {1}
    ELSE { depth + 1 :
             depth \in UNION { LeafDepths(self, Child(InodeAt(self, inode_idx),
                                                      n)) :
                                 n \in 0..(InodeLen(InodeAt(self, inode_idx))
                                           - 1) } }

\* all leaves are equally deep; the children of an inode of leaves are
\* leaves of the arena, those of another inode are inodes of the arena
\* that are all inodes of leaves or all inodes of inodes
Balanced(self) ==
    /\ Cardinality(LeafDepths(self, self.root_idx)) = 1
    /\ \A inode_idx \in InodesBelow(self, self.root_idx) :
         LET inode == InodeAt(self, inode_idx)
             children == { Child(inode, n) : n \in 0..(InodeLen(inode) - 1) }
         IN  IF inode.has_leaves THEN children \subseteq AllLeaves(self)
             ELSE /\ children \subseteq AllInodes(self)
                  /\ \A one, other \in children :
                       InodeAt(self, one).has_leaves
                         = InodeAt(self, other).has_leaves

\* the height of a balanced tree
Height(self) == CHOOSE depth \in LeafDepths(self, self.root_idx) : TRUE

\* a step that makes the tree higher makes it one level higher, and puts
\* a new root with two children above the old root: the old root, then an
\* inode that was not there before, and their summaries added up; no
\* other step changes the root
GrowsByRootSplit ==
    IF Height(gt') > Height(gt)
    THEN /\ Height(gt') = Height(gt) + 1
         /\ gt'.root_idx \notin AllInodes(gt)
         /\ InodeLen(InodeAt(gt', gt'.root_idx)) = 2
         /\ Child(InodeAt(gt', gt'.root_idx), 0) = gt.root_idx
         /\ Child(InodeAt(gt', gt'.root_idx), 1) \notin AllInodes(gt)
         /\ ~InodeAt(gt', gt'.root_idx).has_leaves
         /\ GtreeSummary(gt')
              = InodeAt(gt', gt.root_idx).summary
                + InodeAt(gt', Child(InodeAt(gt', gt'.root_idx), 1)).summary
    ELSE gt'.root_idx = gt.root_idx

\* C33: the Gtree is always balanced: in every reachable state all leaves
\* are at the same depth and the children of any internal node are either
\* all leaves or all internal nodes; the height grows only when the root
\* splits, and the new root then has exactly two children, the old root
\* followed by its new sibling, with a summary equal to the sum of theirs.
C33_Balanced ==
    Balanced(gt) /\ [][Balanced(gt') /\ GrowsByRootSplit]_vars

\* the root of a tree of three levels has just split, in an insert and in
\* a delete_range
C33_Witness ==
    /\ Height(gt) = 3
    /\ InodeLen(InodeAt(gt, gt.root_idx)) = 2
    /\ gt.root_idx = Len(gt.inodes)
    /\ called.free > 0

\* the slots of the inode that hold the handle, for a leaf (of_leaves) or
\* for an inode
SlotsOf(self, inode_idx, handle, of_leaves) ==
    IF InodeAt(self, inode_idx).has_leaves # of_leaves THEN {}
    ELSE { n \in 0..(InodeLen(InodeAt(self, inode_idx)) - 1) :
             Child(InodeAt(self, inode_idx), n) = handle }

\* the handle is in one slot of the inode named as its parent and in no
\* slot of any other inode
OnlyChildOf(self, parent, handle, of_leaves) ==
    /\ parent \in AllInodes(self)
    /\ Cardinality(SlotsOf(self, parent, handle, of_leaves)) = 1
    /\ \A other \in AllInodes(self) \ {parent} :
         SlotsOf(self, other, handle, of_leaves) = {}

\* C34: after every completed insert or delete_range, the parent field of
\* every leaf and of every internal node names the internal node whose
\* child list contains it (it appears in exactly one child list, exactly
\* once), and the parent of the root, and only of the root, is the
\* dangling sentinel.
C34_ParentsConsistent ==
    /\ \A leaf_idx \in AllLeaves(gt) :
         OnlyChildOf(gt, gt.lnodes[leaf_idx].parent, leaf_idx, TRUE)
    /\ \A inode_idx \in AllInodes(gt) :
         IF inode_idx = gt.root_idx
         THEN InodeAt(gt, inode_idx).parent = Dangling
         ELSE /\ InodeAt(gt, inode_idx).parent # Dangling
              /\ OnlyChildOf(gt, InodeAt(gt, inode_idx).parent, inode_idx,
                             FALSE)

\* a delete_range on a tree of three levels has returned two new leaves
\* that went to different inodes, after another call
C34_Witness ==
    /\ Height(gt) = 3
    /\ called.free = FreeCalls
    /\ called.op = "delete_range"
    /\ called.ret[1].some
    /\ called.ret[2].some
    /\ gt.lnodes[called.ret[1].value].parent
         # gt.lnodes[called.ret[2].value].parent

\* ----------------------------------------------------------- Gtree: leaves
\* the leaf the descent of insert_at_offset() and of delete_up_to() ends
\* at: on every level the child child_at_offset() gives
RECURSIVE LeafReaching(_, _, _)
LeafReaching(self, in_inode, at_offset) ==
    LET down(at) ==
          IF InodeAt(self, in_inode).has_leaves
          THEN Child(InodeAt(self, in_inode), at.idx)
          ELSE LeafReaching(self, Child(InodeAt(self, in_inode), at.idx),
                            at_offset - LengthLen(at.offset))
    IN  down(GtreeChildAtOffset(self, in_inode, at_offset))

\* the leaf the descent of delete_range() and of delete_from() ends at:
\* on every level the first child that ends past the offset
RECURSIVE LeafPast(_, _, _)
LeafPast(self, in_inode, at_offset) ==
    LET down(idx) ==
          IF InodeAt(self, in_inode).has_leaves
          THEN Child(InodeAt(self, in_inode), idx)
          ELSE LeafPast(self, Child(InodeAt(self, in_inode), idx),
                        at_offset
                        - LengthLen(SummaryOffsetOfChild(self, in_inode, idx)))
    IN  down(FirstChildPast(self, in_inode, at_offset))

\* the leaf insert() runs insert_with on: the cached leaf when the offset
\* is inside it or at its end, the leaf the descent ends at otherwise
InsertedInto(self, offset) ==
    LET cache == self.last_insertion_cache
        within(leaf_idx, m_offset) ==
          /\ offset > m_offset
          /\ offset <= m_offset + LengthLen(Summarize(LeafAt(self, leaf_idx)))
    IN  IF cache.some /\ within(cache.value[1], LengthLen(cache.value[2]))
        THEN cache.value[1]
        ELSE LeafReaching(self, self.root_idx, offset)

\* the handles a call returned that are Some, in the order returned
LeafReturned(ret, which) ==
    IF which \in DOMAIN ret /\ ret[which].some THEN << ret[which].value >>
    ELSE << >>

\* the leaves with others put right after leaf
PlacedAfter(leaves, leaf, others) ==
    LET at == CHOOSE i \in 1..Len(leaves) : leaves[i] = leaf
    IN  SubSeq(leaves, 1, at) \o others \o SubSeq(leaves, at + 1, Len(leaves))

\* the leaves in order that the call made last has to leave, given those
\* it found: what a callback returned follows the leaf the callback ran on
LeavesExpected(self, leaves, call) ==
    IF call.op = "insert"
    THEN PlacedAfter(leaves, InsertedInto(self, call.start),
                     LeafReturned(call.ret, 1) \o LeafReturned(call.ret, 2))
    ELSE PlacedAfter(
             PlacedAfter(leaves, LeafReaching(self, self.root_idx, call.end),
                         LeafReturned(call.ret, 2)),
             LeafPast(self, self.root_idx, call.start),
             LeafReturned(call.ret, 1))

\* a call leaves every leaf in the arena and in its place among the
\* leaves, and returns the handles of the leaves it added
LeavesStay ==
    LET before == LeavesBelow(gt, gt.root_idx)
        after == LeavesBelow(gt', gt'.root_idx)
        returned == LeafReturned(called'.ret, 1) \o LeafReturned(called'.ret, 2)
    IN  /\ Len(gt'.lnodes) >= Len(gt.lnodes)
        /\ after = LeavesExpected(gt, before, called')
        /\ { returned[i] : i \in 1..Len(returned) }
             = AllLeaves(gt') \ AllLeaves(gt)
        /\ Len(returned) = Cardinality(AllLeaves(gt') \ AllLeaves(gt))
        /\ { after[i] : i \in 1..Len(after) } = AllLeaves(gt')

\* C35: leaves are never removed or reordered and their handles are
\* stable: the number of leaves never decreases, a LeafIdx keeps
\* designating the same leaf for the life of the tree (a deleted leaf stays
\* in place as a tombstone), and the in-order leaf sequence after an insert
\* or delete_range is the sequence before it with each new leaf returned by
\* a callback placed immediately after the leaf that callback was invoked
\* on (first new leaf before the second); the LeafIdx values returned
\* designate exactly those new leaves.
C35_LeavesStay == [][LeavesStay]_vars

\* the place of the leaf among the leaves of the tree
PlaceOfLeaf(self, leaf_idx) ==
    CHOOSE i \in 1..Len(LeavesBelow(self, self.root_idx)) :
        LeavesBelow(self, self.root_idx)[i] = leaf_idx

\* after another call, a delete_range on a tree of three levels has
\* returned two leaves, cut off by del_from and by del_up_to, with
\* tombstones between them
C35_Witness ==
    /\ Height(gt) = 3
    /\ called.free = FreeCalls
    /\ called.op = "delete_range"
    /\ called.ret[1].some
    /\ called.ret[2].some
    /\ PlaceOfLeaf(gt, called.ret[2].value) > PlaceOfLeaf(gt, called.ret[1].value) + 2
    /\ LeafAt(gt, called.ret[1].value).is_deleted
    /\ ~LeafAt(gt, called.ret[2].value).is_deleted

\* the leaves of the tree that are outside the range: those before the
\* leaf that holds its start and those after the leaf that holds its end
LeavesOutside(self, start, end) ==
    LET leaves == LeavesBelow(self, self.root_idx)
        outside(first, last) ==
          { leaves[i] : i \in (1..(first - 1)) \cup ((last + 1)..Len(leaves)) }
    IN  outside(PlaceOfLeaf(self, LeafPast(self, self.root_idx, start)),
                PlaceOfLeaf(self, LeafReaching(self, self.root_idx, end)))

\* a delete_range() step takes end - start off the length of the tree
\* and leaves the leaves outside the range as they were
DeletesTheRange ==
    called'.op = "delete_range" /\ called'.n = called.n + 1
    => /\ GtreeLen(gt') = GtreeLen(gt) - (called'.end - called'.start)
       /\ \A leaf_idx \in LeavesOutside(gt, called'.start, called'.end) :
            /\ LeafAt(gt', leaf_idx) = LeafAt(gt, leaf_idx)
            /\ Summarize(LeafAt(gt', leaf_idx))
                 = Summarize(LeafAt(gt, leaf_idx))

\* C36: for leaves whose summary is their visible length and callbacks that
\* hide exactly the part they are asked to hide, delete_range(s..e) with
\* 0 <= s < e <= total length reduces the length of the root summary by
\* exactly e - s, whether the range falls inside one leaf or spans several
\* children, and leaves the summary of every leaf outside the range
\* unchanged.
C36_DeletesTheRange == [][DeletesTheRange]_vars

\* a delete_range has taken five characters or more out of the middle of a
\* tree of three levels, cutting the leaf at each end of the range
C36_Witness ==
    /\ Height(gt) = 3
    /\ called.op = "delete_range"
    /\ called.start > 0
    /\ called.end - called.start >= 5
    /\ GtreeLen(gt) > called.start
    /\ called.ret[1].some
    /\ called.ret[2].some

\* ------------------------------------------------------------ Gtree: cache
\* the sum of the summaries of the leaves that come before the leaf in the
\* tree
SummaryBeforeLeaf(self, leaf_idx) ==
    SumOfLeaves(self, SubSeq(LeavesBelow(self, self.root_idx), 1,
                             PlaceOfLeaf(self, leaf_idx) - 1))

\* C37: in every state reached by any sequence of insert and delete_range
\* calls, if last_insertion_cache is Some((leaf, summary)) then summary
\* equals the sum of the summaries of all leaves that precede that leaf in
\* in-order traversal; delete_range always resets the cache to None and an
\* insert at offset 0 never leaves a cached entry.
C37_CacheInvariant ==
    /\ gt.last_insertion_cache.some
       => gt.last_insertion_cache.value[2]
            = SummaryBeforeLeaf(gt, gt.last_insertion_cache.value[1])
    /\ called.op = "delete_range" => ~gt.last_insertion_cache.some
    /\ called.op = "insert" /\ called.start = 0
       => ~gt.last_insertion_cache.some

\* ------------------------------------------------------------- Lamport order
\* the runs of the run tree of a replica
RunsOf(self) == { self.run_tree[k] : k \in 1..Len(self.run_tree) }

\* the next value of the Lamport clock of every replica of reps is above
\* the timestamp of every run in its tree
ClockAboveRuns(reps) ==
    \A r \in ReplicaIds :
      reps[r] # Absent
        => \A run \in RunsOf(reps[r]) :
             run.lamport_ts < reps[r].lamport_clock

\* the runs r has created in this step: the runs of its own text that
\* start where its version map stood
CreatedBy(r) ==
    { run \in RunsOf(replicas'[r]) :
        /\ run.rid = r
        /\ run.lo = replicas[r].version_map[r]
        /\ run.hi > run.lo }

\* a run created locally has a timestamp above that of every run the tree
\* held before
NewRunIsLatest ==
    \A r \in Active :
      \A new \in CreatedBy(r) :
        \A run \in RunsOf(replicas[r]) : run.lamport_ts < new.lamport_ts

\* C38: in every reachable state the next value of the Lamport clock of a
\* replica is strictly greater than the lamport_ts of every run in its run
\* tree, and whenever a replica creates a run locally that run's lamport_ts
\* is strictly greater than the lamport_ts of every run that was in its run
\* tree before.
C38_LamportOrdering ==
    /\ ClockAboveRuns(replicas)
    /\ [][ClockAboveRuns(replicas') /\ NewRunIsLatest]_vars

\* a replica holds a run of its own, a run of another replica with a later
\* timestamp (so it was integrated after the first was made), and a run of
\* its own made after that, the last value its clock gave out
C38_Witness ==
    \E r \in Active :
      \E first, own, other \in RunsOf(replicas[r]) :
        /\ first.rid = r
        /\ own.rid = r
        /\ other.rid # r
        /\ first.lamport_ts < other.lamport_ts
        /\ other.lamport_ts < own.lamport_ts
        /\ replicas[r].lamport_clock = own.lamport_ts + 1

\* ------------------------------------------------------------- map accounting
RECURSIVE CharsUpTo(_, _, _)
\* the characters of replica id in the first k runs, tombstones included
CharsUpTo(tree, k, id) ==
    IF k = 0 THEN 0
    ELSE CharsUpTo(tree, k - 1, id)
         + (IF tree[k].rid = id THEN tree[k].hi - tree[k].lo ELSE 0)

\* the characters of replica id present in the run tree of a replica
CharsBy(self, id) == CharsUpTo(self.run_tree, Len(self.run_tree), id)

\* the characters replica id has inserted so far: its own run tree holds
\* every one of them
InsertedBy(reps, id) ==
    IF id \in ReplicaIds /\ reps[id] # Absent THEN CharsBy(reps[id], id)
    ELSE 0

\* the non-empty deletions replica id has generated so far
DeletionsBy(ops, id) ==
    Cardinality({ i \in 1..Len(ops) :
                    ops[i].kind = "deletion" /\ ops[i].deleted_by = id })

\* the maps of every replica of reps count what its run tree holds and
\* stay within what the replicas have done (ops is the log)
MapsAccount(reps, ops) ==
    \A r \in ReplicaIds, id \in IdDomain :
      reps[r] # Absent
        => /\ reps[r].version_map[id] = CharsBy(reps[r], id)
           /\ reps[r].version_map[id] <= InsertedBy(reps, id)
           /\ reps[r].deletion_map[id] <= DeletionsBy(ops, id)

\* no entry of a map goes down in a step
MapsGrow ==
    \A r \in Active, id \in IdDomain :
      /\ replicas'[r].version_map[id] >= replicas[r].version_map[id]
      /\ replicas'[r].deletion_map[id] >= replicas[r].deletion_map[id]

\* C39: in every reachable state and for every replica id X, version_map[X]
\* of a replica is the number of characters of X in its run tree (visible
\* or tombstoned) and is at most the number of characters X has inserted
\* so far, deletion_map[X] is at most the number of non-empty deletions X
\* has generated, and neither entry ever decreases.
C39_MapAccounting ==
    /\ MapsAccount(replicas, log)
    /\ [][MapsAccount(replicas', log') /\ MapsGrow]_vars

\* a replica that has deleted nothing itself holds a run of its own, a
\* later run of another replica that it integrated and that a deletion of
\* that replica has turned into a tombstone, and has not yet seen all that
\* replica has inserted
C39_Witness ==
    \E r \in Active, x \in Active :
      /\ r # x
      /\ replicas[r].deletion_map[r] = 0
      /\ replicas[r].deletion_map[x] >= 1
      /\ replicas[r].version_map[x] < replicas[x].version_map[x]
      /\ \E own, other \in RunsOf(replicas[r]) :
           /\ own.rid = r
           /\ other.rid = x
           /\ ~other.visible
           /\ own.lamport_ts < other.lamport_ts

\* ------------------------------------------------------------- Gtree: descent
RECURSIVE SummariesBefore(_, _, _)
\* the sum of the summaries of the children in slots 0..(child_idx - 1)
SummariesBefore(self, of_inode, child_idx) ==
    IF child_idx = 0 THEN EmptySummary
    ELSE SummariesBefore(self, of_inode, child_idx - 1)
         + ChildSummary(self, of_inode, child_idx - 1)

\* the offsets at which a child of the inode ends and another one begins
Boundaries(self, of_inode) ==
    { LengthLen(SummariesBefore(self, of_inode, j)) :
        j \in 1..(InodeLen(InodeAt(self, of_inode)) - 1) }

\* what child_at_offset() returns is a child with the sum of the summaries
\* before it, and at_offset lies within the child
WithinChild(self, of_inode, at_offset, found) ==
    /\ found.idx \in 0..(InodeLen(InodeAt(self, of_inode)) - 1)
    /\ found.offset = SummariesBefore(self, of_inode, found.idx)
    /\ LengthLen(found.offset) <= at_offset
    /\ at_offset <= LengthLen(found.offset)
                      + ChildMeasure(self, of_inode, found.idx)

\* at a boundary the child returned follows the offset: it begins there
FollowsBoundary(self, of_inode, at_offset, found) ==
    at_offset \in Boundaries(self, of_inode)
      => LengthLen(found.offset) = at_offset

\* C40: for every inode of the tree and every at_offset up to the length
\* of the inode, child_at_offset returns the index of a child and the sum
\* of the summaries of the children before it such that at_offset lies
\* within that child, and when at_offset is on the boundary between two
\* children the child returned is the one that follows the offset.
C40_ChildAtOffset ==
    \A of_inode \in 1..Len(gt.inodes) :
      \A at_offset \in 0..LengthLen(InodeAt(gt, of_inode).summary) :
        /\ WithinChild(gt, of_inode, at_offset,
                       GtreeChildAtOffset(gt, of_inode, at_offset))
        /\ FollowsBoundary(gt, of_inode, at_offset,
                           GtreeChildAtOffset(gt, of_inode, at_offset))

====
